---- MODULE Spec2Model ----
(***************************************************************************)
(* Model of the insider-trading ingestion core of eteam-signal:            *)
(*   InsiderStore   (src/src/services/insider_store.py)                    *)
(*   InsiderClient  (src/src/services/insider_client.py)                   *)
(*   FilingMonitor  (src/src/services/filing_monitor.py)                   *)
(*   /insider/ingest and `insider ingest` (api/insider_routes.py, cli.py)  *)
(*                                                                         *)
(* Dates are day numbers.  Accession numbers are 1, 2, 3, ... in the order *)
(* EDGAR publishes the filings; 0 stands for "no watermark row" (None).    *)
(* The table insider_transactions is a bag of rows, so that a key stored   *)
(* twice is a state the model can express.                                 *)
(***************************************************************************)
EXTENDS Integers, Sequences, FiniteSets, Bags, TLC

VARIABLES
    insider_transactions,   \* table insider_transactions: bag of rows
    monitor_watermarks,     \* last_seen_accession of feed "form4_atom"; 0 = no row
    _running,               \* FilingMonitor._running
    _tasks,                 \* FilingMonitor._tasks: sequence of task ids
    task,                   \* every asyncio task the monitor ever created
    ctl,                    \* the monitor's owner: position in start()/stop()
    ingest,                 \* the one-shot ingest callers (HTTP /ingest, CLI ingest)
    today,                  \* date.today()
    edgar,                  \* Form 4 filings published by EDGAR, oldest first
    on_new_filings_calls,   \* the arguments the post-insert hook was called with
    n_new_returned,         \* sum of the counts upsert_transactions returned to sweeps and ingests
    call,                   \* a direct caller of the store API (upsert_transactions)
    insider_profiles_daily, \* continuous aggregate: trade count per (ticker, insider_name)
    insider_anomalies,      \* table insider_anomalies, in insertion order
    insider_alerts,         \* table insider_alerts, in insertion order
    analysis,               \* a caller of InsiderAnalyzer.analyze_ticker
    composite,              \* a caller of CompositeSignalEngine
    alerting,               \* a caller of AlertService.evaluate
    parser,                 \* a direct caller of _parse_feed_entries
    readback,               \* a client of save_anomaly / get_anomalies
    settings,               \* core.config.settings: the loaded configuration
    direct                  \* a direct caller of the analyzer's helper methods

analysisVars == <<insider_profiles_daily, insider_anomalies, insider_alerts, analysis,
                  composite, alerting, parser, readback, settings, direct>>

vars == <<insider_transactions, monitor_watermarks, _running, _tasks, task, ctl,
          ingest, today, edgar, on_new_filings_calls, n_new_returned, call, analysisVars>>

monitorVars == <<monitor_watermarks, _running, _tasks, task, ctl, ingest, today, edgar,
                 on_new_filings_calls, n_new_returned, analysisVars>>

----------------------------------------------------------------------------
(* Bounds of the model *)

MaxBatch == 3        \* longest batch handed to upsert_transactions by the direct caller
MaxFilings == 2      \* filings EDGAR publishes in one behaviour
MaxDay == 2          \* last day the clock reaches
MaxGap == 2          \* largest filing_date - transaction_date of a filing
MaxTasks == 4        \* asyncio tasks one monitor creates in one behaviour
MaxErrors == 1       \* exceptions raised inside one loop task
PageSize == 2        \* entries EDGAR returns on one feed page
MaxScans == 1        \* analyze_ticker calls in one behaviour
MaxSignals == 3      \* longest list handed to evaluate
MaxAlerts == 4       \* rows of insider_alerts
MaxAnomalyRows == 2  \* rows the client of the anomaly table saves
MaxEntries == 3      \* entries of a page handed to _parse_feed_entries
MaxIds == 2          \* distinct accession ids on such a page
MaxCodes == 3        \* longest list handed to _derive_sentiment by a direct caller
MaxSizes == 6        \* longest list handed to _tier1_detect by a direct caller
MaxDollars == 3      \* largest dollar size in such a list

----------------------------------------------------------------------------
(* InsiderTransaction values *)

\* None, for the Optional numeric fields.
None == -1

\* The fields a Form 4 always carries; the others have the schema's defaults.
Tx(tk, nm, td, sh, cd, pr, fd) ==
    [ticker |-> tk, insider_name |-> nm, transaction_date |-> td, shares |-> sh,
     transaction_code |-> cd, price_per_share |-> pr, filing_date |-> fd,
     insider_title |-> "", is_officer |-> FALSE, shares_owned_after |-> None,
     is_10b5_1 |-> FALSE]

\* The transactions the direct caller draws its batches from: three identity
\* keys, two of them with two variants that differ in non-key attributes only.
TxUniverse ==
    { Tx("AAPL", "Jane", 1, 100, "S", 150, 2),
      Tx("AAPL", "Jane", 1, 100, "S", 160, 3),
      Tx("AAPL", "Jane", 1, 100, "P", 150, 2),
      Tx("AAPL", "Jane", 1, 100, "P", 0,   2),
      Tx("MSFT", "Bob",  2, 200, "S", 150, 2) }

Batches == UNION { [1..n -> TxUniverse] : n \in 0..MaxBatch }

----------------------------------------------------------------------------
(* InsiderStore: transactions *)

\* The conflict target of the INSERT: the identity key.
IdentityKey(tx) ==
    <<tx.ticker, tx.insider_name, tx.transaction_date, tx.shares, tx.transaction_code>>

StoredKeys(table) == { IdentityKey(r) : r \in BagToSet(table) }

ConflictNever(table, tx) == FALSE

ConflictOnPartialKey(table, tx) ==
    \E r \in BagToSet(table) :
        /\ r.ticker = tx.ticker
        /\ r.insider_name = tx.insider_name
        /\ r.transaction_date = tx.transaction_date

\* ON CONFLICT (ticker, insider_name, transaction_date, shares, transaction_code)
Conflict(table, tx) == IdentityKey(tx) \in StoredKeys(table)

upsert_overwrite(table, tx) ==
    IF Conflict(table, tx)
      THEN [rows |-> SetToBag({ IF IdentityKey(r) = IdentityKey(tx) THEN tx ELSE r
                                  : r \in BagToSet(table) }),
            created |-> FALSE]
      ELSE [rows |-> table (+) SetToBag({tx}), created |-> TRUE]

\* upsert_transaction: INSERT ... ON CONFLICT DO NOTHING RETURNING id.
\* rows is the table after the statement, created is `row is not None`.
upsert_transaction(table, tx) ==
    IF Conflict(table, tx)
      THEN [rows |-> table, created |-> FALSE]
      ELSE [rows |-> table (+) SetToBag({tx}), created |-> TRUE]

----------------------------------------------------------------------------
(* A direct caller of upsert_transactions: it hands a batch to the store,  *)
(* row by row as the loop of upsert_transactions does, and then hands the  *)
(* same batch a second time.                                               *)

NoTx == Tx("", "", 0, 0, "", 0, 0)

CallIdle ==
    [pc |-> "idle", txns |-> <<>>, i |-> 1, inserted |-> 0, run |-> 0,
     before |-> EmptyBag, ret1 |-> 0, after1 |-> EmptyBag,
     last_tx |-> NoTx, last_created |-> FALSE, last_before |-> EmptyBag]

\* upsert_transactions(txns) is entered: inserted = 0.
CallUpsertTransactions ==
    /\ call.pc = "idle"
    /\ \E b \in Batches :
         call' = [CallIdle EXCEPT !.pc = "upserting", !.txns = b, !.run = 1,
                                  !.before = insider_transactions]
    /\ UNCHANGED <<insider_transactions, monitorVars>>

\* One iteration of `for tx in txns: if await self.upsert_transaction(tx): inserted += 1`.
CallUpsertRow ==
    /\ call.pc = "upserting"
    /\ call.i <= Len(call.txns)
    /\ LET tx == call.txns[call.i]
           r  == upsert_transaction(insider_transactions, tx)
       IN /\ insider_transactions' = r.rows
          /\ call' = [call EXCEPT !.i = @ + 1,
                                  !.inserted = IF r.created THEN @ + 1 ELSE @,
                                  !.last_tx = tx, !.last_created = r.created,
                                  !.last_before = insider_transactions]
    /\ UNCHANGED monitorVars

\* `return inserted`
CallReturn ==
    /\ call.pc = "upserting"
    /\ call.i > Len(call.txns)
    /\ call' = [call EXCEPT !.pc = "returned"]
    /\ UNCHANGED <<insider_transactions, monitorVars>>

\* The caller replays the batch: upsert_transactions(txns) once more.
CallReplay ==
    /\ call.pc = "returned"
    /\ call.run = 1
    /\ call' = [call EXCEPT !.pc = "upserting", !.i = 1, !.inserted = 0, !.run = 2,
                            !.before = insider_transactions,
                            !.ret1 = call.inserted, !.after1 = insider_transactions]
    /\ UNCHANGED <<insider_transactions, monitorVars>>

\* The caller is done with this batch and free to hand in another one.
CallFinish ==
    /\ call.pc = "returned"
    /\ call.run = 2
    /\ call' = CallIdle
    /\ UNCHANGED <<insider_transactions, monitorVars>>

----------------------------------------------------------------------------
(* Configuration (src/src/core/config.py) and the monitor's constructor    *)

FEED_NAME == "form4_atom"

INSIDER_BATCH_OVERLAP_HOURS == 2

filings_per_ticker == 20

DaysBackDefault == 90

\* FilingMonitor.universe, as sorted(self.universe) walks it.
Universe == <<"AAPL">>

Insiders == {"Jane"}

\* A post-insert hook is supplied to the constructor.
on_new_filings == TRUE

Max(a, b) == IF a >= b THEN a ELSE b

Min(a, b) == IF a <= b THEN a ELSE b

----------------------------------------------------------------------------
(* EDGAR: the filings published so far, and what the two fetches return    *)

Reverse(s) == [j \in 1..Len(s) |-> s[Len(s) + 1 - j]]

\* The n most recent elements of s (oldest first), newest first.
Latest(s, n) == SubSeq(Reverse(s), 1, Min(n, Len(s)))

RECURSIVE Flatten(_)
Flatten(ss) == IF ss = <<>> THEN <<>> ELSE Head(ss) \o Flatten(Tail(ss))

\* company.get_filings(form="4").latest(limit), as a list
fetch_form4_filings(ticker, limit) ==
    Latest(SelectSeq(edgar, LAMBDA f : f.ticker = ticker), limit)

\* parse_form4: the InsiderTransactions of one filing
parse_form4(f, ticker) == [j \in 1..Len(f.transactions) |->
                              [f.transactions[j] EXCEPT !.ticker = ticker]]

\* The body of batch_fetch's loop for one ticker: the transactions it appends.
FetchTicker(ticker, cutoff) ==
    LET filings == fetch_form4_filings(ticker, filings_per_ticker)
        parsed  == Flatten([j \in 1..Len(filings) |-> parse_form4(filings[j], ticker)])
    IN SelectSeq(parsed, LAMBDA tx : tx.transaction_date >= cutoff)

\* The feed page for one day: entries newest first, each entry the sequence
\* of its atom:id elements (one id here).
FeedPage(day) ==
    LET ofDay == SelectSeq(edgar, LAMBDA f : f.filing_date = day)
        page  == Latest(ofDay, PageSize)
    IN [j \in 1..Len(page) |-> <<page[j].accession>>]

RECURSIVE ParseEntriesSkipsWatermark(_, _)
ParseEntriesSkipsWatermark(entries, watermark) ==
    IF entries = <<>> THEN <<>>
    ELSE IF Head(entries) = <<>> \/ Head(entries)[1] = watermark
      THEN ParseEntriesSkipsWatermark(Tail(entries), watermark)
    ELSE <<Head(entries)[1]>> \o ParseEntriesSkipsWatermark(Tail(entries), watermark)

\* _parse_feed_entries: the ids before the first one equal to the watermark;
\* entries without an id are skipped; a page that is not XML yields [].
RECURSIVE ParseEntries(_, _)
ParseEntries(entries, watermark) ==
    IF entries = <<>> THEN <<>>
    ELSE IF Head(entries) = <<>> THEN ParseEntries(Tail(entries), watermark)
    ELSE IF Head(entries)[1] = watermark THEN <<>>
    ELSE <<Head(entries)[1]>> \o ParseEntries(Tail(entries), watermark)

_parse_feed_entries(xml_text, watermark) ==
    IF xml_text.well_formed THEN ParseEntries(xml_text.entries, watermark) ELSE <<>>

\* overlap_days = max(1, INSIDER_BATCH_OVERLAP_HOURS // 24 + 1)
overlap_days == Max(1, (INSIDER_BATCH_OVERLAP_HOURS \div 24) + 1)

\* EDGAR publishes a Form 4 of a universe ticker: one transaction, made
\* `gap` days before the filing.
FileForm4(gap) ==
    /\ Len(edgar) < MaxFilings
    /\ \E tk \in {Universe[j] : j \in 1..Len(Universe)}, nm \in Insiders :
         edgar' = Append(edgar,
                    [accession |-> Len(edgar) + 1, ticker |-> tk, filing_date |-> today,
                     transactions |-> <<Tx(tk, nm, today - gap, 100, "S", 150, today)>>])
    /\ UNCHANGED <<insider_transactions, monitor_watermarks, _running, _tasks, task, ctl,
                   ingest, today, on_new_filings_calls, n_new_returned, call, analysisVars>>

\* Midnight.
AdvanceDay ==
    /\ today < MaxDay
    /\ today' = today + 1
    /\ UNCHANGED <<insider_transactions, monitor_watermarks, _running, _tasks, task, ctl,
                   ingest, edgar, on_new_filings_calls, n_new_returned, call, analysisVars>>

----------------------------------------------------------------------------
(* The activation record of one loop task or one ingest caller.  pc names  *)
(* the await the coroutine is suspended in.                                *)

NoXml == [well_formed |-> TRUE, entries |-> <<>>]

NewProc(kind) ==
    [kind |-> kind, pc |-> "wait", cancel |-> FALSE, faults |-> 0, raised |-> FALSE,
     url_date |-> 0, resp |-> NoXml, new_accessions |-> <<>>, processed |-> <<>>,
     latest |-> 0,
     cutoff |-> 0, k |-> 0, txns |-> <<>>, i |-> 1, inserted |-> 0, new_rows |-> <<>>]

Terminal == {"exited", "cancelled", "failed"}

Finished(p) == p.pc \in Terminal

\* batch_fetch is entered: the cutoff is computed and the first ticker is
\* fetched before the first rate-limit sleep.
EnterBatchFetch(p, days_back) ==
    LET cutoff == today - days_back
    IN [p EXCEPT !.pc = "rate_sleep", !.cutoff = cutoff, !.k = 1,
                 !.txns = FetchTicker(Universe[1], cutoff), !.i = 1, !.inserted = 0,
                 !.new_rows = <<>>]

\* A rate-limit sleep of batch_fetch is over: the next ticker is fetched, or
\* batch_fetch returns and upsert_transactions awaits its first row.
\* `after` is the pc the caller continues at when there is nothing to upsert.
AfterRateSleep(p, after) ==
    IF p.k < Len(Universe)
      THEN [p EXCEPT !.k = @ + 1,
                     !.txns = @ \o FetchTicker(Universe[p.k + 1], p.cutoff)]
      ELSE IF p.txns = <<>> THEN [p EXCEPT !.pc = after]
      ELSE [p EXCEPT !.pc = "upsert"]

\* One awaited upsert_transaction of the loop of upsert_transactions.
\* new_rows keeps the transactions for which it returned true.
CountRow(p, created) ==
    [p EXCEPT !.i = @ + 1, !.inserted = IF created THEN @ + 1 ELSE @,
              !.new_rows = IF created THEN Append(@, p.txns[p.i]) ELSE @]

----------------------------------------------------------------------------
(* InsiderStore: watermarks.  monitor_watermarks maps feed_name to         *)
(* last_seen_accession; a feed without a row is not in its domain.         *)

NoWatermarks == [f \in {} |-> 0]

\* get_watermark: row["last_seen_accession"] if row else None (0)
get_watermark(table, feed_name) ==
    IF feed_name \in DOMAIN table THEN table[feed_name] ELSE 0

\* set_watermark: INSERT ... ON CONFLICT (feed_name) DO UPDATE SET last_seen_accession = $2
set_watermark(table, feed_name, accession) ==
    [f \in DOMAIN table \cup {feed_name} |->
        IF f = feed_name THEN accession ELSE table[f]]

----------------------------------------------------------------------------
(* FilingMonitor.start and FilingMonitor.stop, called one after the other  *)
(* by the monitor's owner.                                                 *)

Range(s) == { s[j] : j \in 1..Len(s) }

\* start(): _running = True; _tasks = [create_task(atom), create_task(batch)]
Start ==
    /\ ctl.pc = "idle"
    /\ Len(task) + 2 <= MaxTasks
    /\ _running' = TRUE
    /\ task' = task \o <<NewProc("atom"), NewProc("batch")>>
    /\ _tasks' = <<Len(task) + 1, Len(task) + 2>>
    /\ ctl' = [ctl EXCEPT !.last = "start", !.starts = @ + 1]
    /\ UNCHANGED <<insider_transactions, monitor_watermarks, ingest, today, edgar,
                   on_new_filings_calls, n_new_returned, call, analysisVars>>

\* stop(), up to its await: _running = False; task.cancel() for each handle.
StopCall ==
    /\ ctl.pc = "idle"
    /\ _running' = FALSE
    /\ task' = [t \in DOMAIN task |->
                  IF t \in Range(_tasks) /\ ~Finished(task[t])
                    THEN [task[t] EXCEPT !.cancel = TRUE] ELSE task[t]]
    /\ ctl' = [ctl EXCEPT !.pc = "gather"]
    /\ UNCHANGED <<insider_transactions, monitor_watermarks, _tasks, ingest, today, edgar,
                   on_new_filings_calls, n_new_returned, call, analysisVars>>

\* stop(), from its await: gather(*self._tasks) is done; self._tasks.clear().
StopReturn ==
    /\ ctl.pc = "gather"
    /\ \A t \in Range(_tasks) : Finished(task[t])
    /\ _tasks' = <<>>
    /\ ctl' = [ctl EXCEPT !.pc = "idle", !.last = "stop", !.starts = 0]
    /\ UNCHANGED <<insider_transactions, monitor_watermarks, _running, task, ingest, today,
                   edgar, on_new_filings_calls, n_new_returned, call, analysisVars>>

----------------------------------------------------------------------------
(* The two loops.  Every action below is the code that runs between two    *)
(* awaits of one task; a task whose cancel() was called runs none of them. *)

Runs(t, pc) == /\ t \in DOMAIN task
               /\ task[t].pc = pc
               /\ ~task[t].cancel

CanFault(t) == task[t].faults < MaxErrors

ErrorEscapesLoop(p) ==
    [p EXCEPT !.pc = "failed", !.raised = TRUE, !.faults = @ + 1]

\* `except Exception as e: log.error(...)`, then the loop's sleep.
OnCycleError(p) ==
    [p EXCEPT !.pc = "wait", !.raised = TRUE, !.faults = @ + 1]

\* CancelledError is thrown into the task at the await it is suspended in.
\* A store write that await had in flight is applied or is not.
TaskCancelled(t) ==
    /\ t \in DOMAIN task
    /\ task[t].cancel
    /\ ~Finished(task[t])
    /\ task' = [task EXCEPT ![t].pc = "cancelled"]
    /\ \E applied \in BOOLEAN :
         /\ monitor_watermarks' =
              IF applied /\ task[t].pc = "set_watermark"
                THEN set_watermark(monitor_watermarks, FEED_NAME, task[t].latest)
                ELSE monitor_watermarks
         /\ insider_transactions' =
              IF applied /\ task[t].pc = "upsert"
                THEN upsert_transaction(insider_transactions, task[t].txns[task[t].i]).rows
                ELSE insider_transactions
    /\ UNCHANGED <<_running, _tasks, ctl, ingest, today, edgar, on_new_filings_calls,
                   n_new_returned, call, analysisVars>>

\* `while self._running` is false: the loop coroutine returns.
LoopExit(t) ==
    /\ Runs(t, "wait")
    /\ ~_running
    /\ task' = [task EXCEPT ![t].pc = "exited"]
    /\ UNCHANGED <<insider_transactions, monitor_watermarks, _running, _tasks, ctl, ingest,
                   today, edgar, on_new_filings_calls, n_new_returned, call, analysisVars>>

(* Path A *)

\* _atom_poll_loop: `while self._running`, then _poll_atom_feed up to http.get(url)
AtomLoop(t) ==
    /\ Runs(t, "wait")
    /\ task[t].kind = "atom"
    /\ _running
    /\ task' = [task EXCEPT ![t].pc = "http_get", ![t].raised = FALSE, ![t].url_date = today,
                            ![t].new_accessions = <<>>, ![t].processed = <<>>,
                            ![t].latest = 0]
    /\ UNCHANGED <<insider_transactions, monitor_watermarks, _running, _tasks, ctl, ingest,
                   today, edgar, on_new_filings_calls, n_new_returned, call, analysisVars>>

\* http.get(url) answers with the page of url's day; the body may not be XML.
HttpGet(t) ==
    /\ Runs(t, "http_get")
    /\ \E wf \in BOOLEAN :
         task' = [task EXCEPT ![t].pc = "get_watermark",
                              ![t].resp = [well_formed |-> wf,
                                           entries |-> FeedPage(task[t].url_date)]]
    /\ UNCHANGED <<insider_transactions, monitor_watermarks, _running, _tasks, ctl, ingest,
                   today, edgar, on_new_filings_calls, n_new_returned, call, analysisVars>>

\* http.get raises, or resp.raise_for_status() does.
HttpGetRaises(t) ==
    /\ Runs(t, "http_get")
    /\ CanFault(t)
    /\ task' = [task EXCEPT ![t] = OnCycleError(@)]
    /\ UNCHANGED <<insider_transactions, monitor_watermarks, _running, _tasks, ctl, ingest,
                   today, edgar, on_new_filings_calls, n_new_returned, call, analysisVars>>

\* _process_accession that resolves the filing and stores its transaction.
process_accession_stores(table, accession) ==
    LET filings == SelectSeq(edgar, LAMBDA f : f.accession = accession)
    IN IF filings = <<>> THEN table
       ELSE upsert_transaction(table, filings[1].transactions[1]).rows

\* _process_accession(accession): `pass`
_process_accession(table, accession) == table

RECURSIVE ProcessAll(_, _)
ProcessAll(table, accessions) ==
    IF accessions = <<>> THEN table
    ELSE ProcessAll(_process_accession(table, Head(accessions)), Tail(accessions))

oldest_accession(new_accessions) == new_accessions[Len(new_accessions)]

\* latest_accession = new_accessions[0]
latest_accession(new_accessions) == new_accessions[1]

\* get_watermark answers; the page is parser; every new accession is
\* processed; set_watermark(FEED_NAME, latest_accession) is awaited.
GetWatermark(t) ==
    /\ Runs(t, "get_watermark")
    /\ LET watermark      == get_watermark(monitor_watermarks, FEED_NAME)
           new_accessions == _parse_feed_entries(task[t].resp, watermark)
       IN IF new_accessions = <<>>
            THEN /\ task' = [task EXCEPT ![t].pc = "wait"]
                 /\ UNCHANGED insider_transactions
            ELSE /\ task' = [task EXCEPT ![t].pc = "set_watermark",
                                         ![t].new_accessions = new_accessions,
                                         ![t].processed = new_accessions,
                                         ![t].latest = latest_accession(new_accessions)]
                 /\ insider_transactions' = ProcessAll(insider_transactions, new_accessions)
    /\ UNCHANGED <<monitor_watermarks, _running, _tasks, ctl, ingest, today, edgar,
                   on_new_filings_calls, n_new_returned, call, analysisVars>>

GetWatermarkRaises(t) ==
    /\ Runs(t, "get_watermark")
    /\ CanFault(t)
    /\ task' = [task EXCEPT ![t] = OnCycleError(@)]
    /\ UNCHANGED <<insider_transactions, monitor_watermarks, _running, _tasks, ctl, ingest,
                   today, edgar, on_new_filings_calls, n_new_returned, call, analysisVars>>

\* An awaited _process_accession(accession) raises: the exception leaves
\* _poll_atom_feed before set_watermark is reached.
ProcessAccessionRaises(t) ==
    /\ Runs(t, "get_watermark")
    /\ CanFault(t)
    /\ LET new_accessions ==
             _parse_feed_entries(task[t].resp, get_watermark(monitor_watermarks, FEED_NAME))
       IN /\ new_accessions # <<>>
          /\ \E done \in 0..(Len(new_accessions) - 1) :
               task' = [task EXCEPT ![t] = [OnCycleError(@) EXCEPT
                                              !.new_accessions = new_accessions,
                                              !.processed = SubSeq(new_accessions, 1, done),
                                              !.latest = latest_accession(new_accessions)]]
    /\ UNCHANGED <<insider_transactions, monitor_watermarks, _running, _tasks, ctl, ingest,
                   today, edgar, on_new_filings_calls, n_new_returned, call, analysisVars>>

\* set_watermark is executed; the cycle is over and the loop sleeps.
SetWatermark(t) ==
    /\ Runs(t, "set_watermark")
    /\ monitor_watermarks' = set_watermark(monitor_watermarks, FEED_NAME, task[t].latest)
    /\ task' = [task EXCEPT ![t].pc = "wait"]
    /\ UNCHANGED <<insider_transactions, _running, _tasks, ctl, ingest, today, edgar,
                   on_new_filings_calls, n_new_returned, call, analysisVars>>

SetWatermarkRaises(t) ==
    /\ Runs(t, "set_watermark")
    /\ CanFault(t)
    /\ task' = [task EXCEPT ![t] = OnCycleError(@)]
    /\ UNCHANGED <<insider_transactions, monitor_watermarks, _running, _tasks, ctl, ingest,
                   today, edgar, on_new_filings_calls, n_new_returned, call, analysisVars>>

(* Path B *)

\* _batch_sweep_loop: `while self._running`, then _run_batch_sweep up to the
\* first sleep of batch_fetch(tickers, days_back=overlap_days)
BatchLoop(t) ==
    /\ Runs(t, "wait")
    /\ task[t].kind = "batch"
    /\ _running
    /\ task' = [task EXCEPT ![t] = EnterBatchFetch([@ EXCEPT !.raised = FALSE], overlap_days)]
    /\ UNCHANGED <<insider_transactions, monitor_watermarks, _running, _tasks, ctl, ingest,
                   today, edgar, on_new_filings_calls, n_new_returned, call, analysisVars>>

\* The sweep has its count: `if inserted > 0 and self.on_new_filings:
\* await self.on_new_filings(txns[:inserted])`, else the loop sleeps.
AfterUpsert(p) ==
    IF p.inserted > 0 /\ on_new_filings THEN [p EXCEPT !.pc = "hook"]
    ELSE [p EXCEPT !.pc = "wait"]

HookCalls(p) ==
    IF p.inserted > 0 /\ on_new_filings
      THEN Append(on_new_filings_calls, SubSeq(p.txns, 1, p.inserted))
      ELSE on_new_filings_calls

\* A rate-limit sleep of batch_fetch ends.
RateSleep(t) ==
    /\ Runs(t, "rate_sleep")
    /\ task' = [task EXCEPT ![t] = AfterRateSleep(@, "wait")]
    /\ UNCHANGED <<insider_transactions, monitor_watermarks, _running, _tasks, ctl, ingest,
                   today, edgar, on_new_filings_calls, n_new_returned, call, analysisVars>>

BatchFetchRaises(t) ==
    /\ Runs(t, "rate_sleep")
    /\ CanFault(t)
    /\ task' = [task EXCEPT ![t] = OnCycleError(@)]
    /\ UNCHANGED <<insider_transactions, monitor_watermarks, _running, _tasks, ctl, ingest,
                   today, edgar, on_new_filings_calls, n_new_returned, call, analysisVars>>

\* The awaited upsert_transaction(txns[i]) is executed.  After the last row
\* upsert_transactions returns `inserted` to _run_batch_sweep.
UpsertRow(t) ==
    /\ Runs(t, "upsert")
    /\ LET r == upsert_transaction(insider_transactions, task[t].txns[task[t].i])
           p == CountRow(task[t], r.created)
       IN /\ insider_transactions' = r.rows
          /\ IF p.i <= Len(p.txns)
               THEN /\ task' = [task EXCEPT ![t] = p]
                    /\ UNCHANGED <<on_new_filings_calls, n_new_returned>>
               ELSE /\ task' = [task EXCEPT ![t] = AfterUpsert(p)]
                    /\ on_new_filings_calls' = HookCalls(p)
                    /\ n_new_returned' = n_new_returned + p.inserted
    /\ UNCHANGED <<monitor_watermarks, _running, _tasks, ctl, ingest, today, edgar, call, analysisVars>>

\* The awaited upsert_transaction raises (a connection error): no row is written.
UpsertRaises(t) ==
    /\ Runs(t, "upsert")
    /\ CanFault(t)
    /\ task' = [task EXCEPT ![t] = OnCycleError(@)]
    /\ UNCHANGED <<insider_transactions, monitor_watermarks, _running, _tasks, ctl, ingest,
                   today, edgar, on_new_filings_calls, n_new_returned, call, analysisVars>>

\* The post-insert hook returns.
Hook(t) ==
    /\ Runs(t, "hook")
    /\ task' = [task EXCEPT ![t].pc = "wait"]
    /\ UNCHANGED <<insider_transactions, monitor_watermarks, _running, _tasks, ctl, ingest,
                   today, edgar, on_new_filings_calls, n_new_returned, call, analysisVars>>

HookRaises(t) ==
    /\ Runs(t, "hook")
    /\ CanFault(t)
    /\ task' = [task EXCEPT ![t] = OnCycleError(@)]
    /\ UNCHANGED <<insider_transactions, monitor_watermarks, _running, _tasks, ctl, ingest,
                   today, edgar, on_new_filings_calls, n_new_returned, call, analysisVars>>

----------------------------------------------------------------------------
(* The one-shot ingests: POST /insider/ingest and `insider ingest`.        *)

Ingesters == {"http", "cli"}

IngestIdle == [NewProc("ingest") EXCEPT !.pc = "idle"]

\* txns = await client.batch_fetch(tickers, days_back=days_back)
IngestCall(w) ==
    /\ ingest[w].pc = "idle"
    /\ ingest' = [ingest EXCEPT ![w] = EnterBatchFetch(@, DaysBackDefault)]
    /\ UNCHANGED <<insider_transactions, monitor_watermarks, _running, _tasks, task, ctl,
                   today, edgar, on_new_filings_calls, n_new_returned, call, analysisVars>>

IngestRateSleep(w) ==
    /\ ingest[w].pc = "rate_sleep"
    /\ ingest' = [ingest EXCEPT ![w] = AfterRateSleep(@, "idle")]
    /\ UNCHANGED <<insider_transactions, monitor_watermarks, _running, _tasks, task, ctl,
                   today, edgar, on_new_filings_calls, n_new_returned, call, analysisVars>>

\* inserted = await store.upsert_transactions(txns), row by row; after the
\* last row the count is returned to the caller.
IngestUpsertRow(w) ==
    /\ ingest[w].pc = "upsert"
    /\ LET r == upsert_transaction(insider_transactions, ingest[w].txns[ingest[w].i])
           p == CountRow(ingest[w], r.created)
       IN /\ insider_transactions' = r.rows
          /\ IF p.i <= Len(p.txns)
               THEN /\ ingest' = [ingest EXCEPT ![w] = p]
                    /\ UNCHANGED n_new_returned
               ELSE /\ ingest' = [ingest EXCEPT ![w] = IngestIdle]
                    /\ n_new_returned' = n_new_returned + p.inserted
    /\ UNCHANGED <<monitor_watermarks, _running, _tasks, task, ctl, today, edgar,
                   on_new_filings_calls, call, analysisVars>>

----------------------------------------------------------------------------
(* InsiderStore: the read side the anomaly engine uses.  Floats are fixed  *)
(* point: a score s is the integer s * One, rounded down.                  *)

\* The float 1.0 in score units.
One == 10000

INSIDER_ANOMALY_THRESHOLD == 6000

INSIDER_LOOKBACK_DAYS == 730

INSIDER_CLUSTER_WINDOW_DAYS == 14

\* class Settings with its defaults: the configuration when the environment
\* sets none of the keys.
Settings ==
    [INSIDER_LOOKBACK_DAYS |-> INSIDER_LOOKBACK_DAYS,
     INSIDER_CLUSTER_WINDOW_DAYS |-> INSIDER_CLUSTER_WINDOW_DAYS]

\* Configurations the environment can load: the defaults, and a lookback
\* shorter than the cluster window.
Configurations ==
    { Settings, [Settings EXCEPT !.INSIDER_LOOKBACK_DAYS = 0] }

\* The rows of a set in the order `ORDER BY transaction_date DESC` can
\* return them: rows of one date come in any order.
RECURSIVE OrderByDateDesc(_)
OrderByDateDesc(rows) ==
    IF rows = {} THEN {<<>>}
    ELSE LET top == { r \in rows :
                        \A q \in rows : q.transaction_date <= r.transaction_date }
         IN UNION { { <<r>> \o s : s \in OrderByDateDesc(rows \ {r}) } : r \in top }

get_transactions_all(table, ticker, days_back) ==
    OrderByDateDesc({ r \in BagToSet(table) : r.ticker = ticker })

\* get_transactions(ticker, days_back): the possible result lists.
get_transactions(table, ticker, days_back) ==
    LET cutoff == today - days_back
    IN OrderByDateDesc({ r \in BagToSet(table) :
                           r.ticker = ticker /\ r.transaction_date >= cutoff })

\* get_recent_sellers(ticker, window_days): SELECT DISTINCT insider_name
get_recent_sellers(table, ticker, window_days) ==
    LET cutoff == today - window_days
    IN { r.insider_name : r \in { q \in BagToSet(table) :
                                    /\ q.ticker = ticker
                                    /\ q.transaction_code = "S"
                                    /\ q.transaction_date >= cutoff } }

\* The refresh policy of the continuous aggregate insider_profiles_daily
\* materialises the trade count of every (ticker, insider_name).
RefreshAggregate ==
    /\ insider_profiles_daily' =
         { [ticker |-> r.ticker, insider_name |-> r.insider_name,
            trade_count |-> Cardinality({ q \in BagToSet(insider_transactions) :
                                            /\ q.ticker = r.ticker
                                            /\ q.insider_name = r.insider_name })]
           : r \in BagToSet(insider_transactions) }
    /\ insider_profiles_daily' # insider_profiles_daily
    /\ UNCHANGED <<insider_transactions, monitor_watermarks, _running, _tasks, task, ctl,
                   ingest, today, edgar, on_new_filings_calls, n_new_returned, call,
                   insider_anomalies, insider_alerts, analysis, composite, alerting,
                   parser, readback, settings, direct>>

\* get_profile returns None when the aggregate has no row.
HasProfile(aggregate, ticker, insider_name) ==
    \E a \in aggregate : a.ticker = ticker /\ a.insider_name = insider_name

MaxOf(S) == CHOOSE x \in S : \A y \in S : y <= x

MinOf(S) == CHOOSE x \in S : \A y \in S : x <= y

\* get_profile(ticker, insider_name), when the aggregate has a row.
\* avg_frequency_days is the fraction span_days / (total - 1), kept as
\* numerator and denominator; 0.0 is 0 / 1.
get_profile(table, aggregate, ticker, insider_name) ==
    LET row   == CHOOSE a \in aggregate :
                     a.ticker = ticker /\ a.insider_name = insider_name
        dates == { r.transaction_date : r \in { q \in BagToSet(table) :
                      q.ticker = ticker /\ q.insider_name = insider_name } }
        total == row.trade_count
        span_days == IF dates # {} /\ total > 1 THEN MaxOf(dates) - MinOf(dates) ELSE 0
    IN [insider_name |-> insider_name, ticker |-> ticker,
        total_transactions |-> total,
        avg_frequency_days |-> IF total > 1 THEN [num |-> span_days, den |-> total - 1]
                                             ELSE [num |-> 0, den |-> 1],
        last_transaction_date |-> IF dates # {} THEN MaxOf(dates) ELSE None]

\* save_anomaly: the row INSERTed into insider_anomalies.
AnomalyRow(anomaly) ==
    [ticker |-> anomaly.ticker, insider_name |-> anomaly.insider_name,
     anomaly_type |-> anomaly.anomaly_type, severity_score |-> anomaly.severity_score,
     z_score |-> anomaly.z_score, description |-> anomaly.description]

save_anomaly(table, anomaly) == Append(table, AnomalyRow(anomaly))

RECURSIVE SaveAll(_, _)
SaveAll(table, anomalies) ==
    IF anomalies = <<>> THEN table
    ELSE SaveAll(save_anomaly(table, Head(anomalies)), Tail(anomalies))

----------------------------------------------------------------------------
(* InsiderAnalyzer (src/src/agents/insider_analyzer.py)                    *)

VOLUME_Z_THRESHOLD == 2

FREQUENCY_RATIO_THRESHOLD == 2500

CLUSTER_SELLER_THRESHOLD == 3

HOLDINGS_PCT_THRESHOLD == 2000

PLANNED_TRADE_DISCOUNT == 5000

ROLE_WEIGHTS(role) ==
    CASE role = "ceo" -> 15000
      [] role = "cfo" -> 15000
      [] role = "officer" -> 12000
      [] OTHER -> 10000

InsiderAnomaly(ticker, insider_name, anomaly_type, severity_score, z_score, description, transactions) ==
    [ticker |-> ticker, insider_name |-> insider_name, anomaly_type |-> anomaly_type,
     severity_score |-> severity_score, z_score |-> z_score, description |-> description,
     transactions |-> transactions]

\* InsiderSignal(ticker=ticker): the defaults of the schema.
InsiderSignal(ticker) ==
    [ticker |-> ticker, anomaly_score |-> 0, anomalies |-> <<>>,
     insider_sentiment |-> "NEUTRAL", recommendation |-> "",
     composite_alpha_score |-> None]

RECURSIVE Sum(_)
Sum(s) == IF s = <<>> THEN 0 ELSE Head(s) + Sum(Tail(s))

\* floor(sqrt(x))
isqrt(x) == CHOOSE r \in 0..x : r * r <= x /\ x < (r + 1) * (r + 1)

\* `if t.price_per_share`: a price that is neither None nor 0
Priced(tx) == tx.price_per_share # None /\ tx.price_per_share # 0

\* t.shares * (t.price_per_share or 0)
DollarSize(tx) == tx.shares * (IF Priced(tx) THEN tx.price_per_share ELSE 0)

\* The volume rule with np.std's default ddof=0 in place of ddof=1.
VolumeRulePopulationStd(txns, ticker) ==
    LET latest == txns[1]
        priced == SelectSeq(txns, Priced)
        sizes  == [j \in 1..Len(priced) |-> DollarSize(priced[j])]
        n      == Len(sizes)
        D      == n * DollarSize(latest) - Sum(sizes)
        V      == n * Sum([j \in 1..n |-> sizes[j] * sizes[j]]) - Sum(sizes) * Sum(sizes)
        P      == D * D * n
        Q      == n * V
        z10    == isqrt((P * 100) \div Q)
    IN IF n >= 3 /\ V > 0 /\ P > VOLUME_Z_THRESHOLD * VOLUME_Z_THRESHOLD * Q
         THEN <<InsiderAnomaly(ticker, latest.insider_name, "VOLUME",
                               IF P >= 25 * Q THEN One ELSE (z10 * One) \div 50,
                               IF D < 0 THEN -z10 ELSE z10,
                               "Transaction size z-score vs historical mean",
                               <<latest>>)>>
         ELSE <<>>

\* The volume rule with the latest transaction left out of the sample.
VolumeRuleOverHistory(txns, ticker) ==
    LET latest == txns[1]
        priced == SelectSeq(Tail(txns), Priced)
        sizes  == [j \in 1..Len(priced) |-> DollarSize(priced[j])]
        n      == Len(sizes)
        D      == n * DollarSize(latest) - Sum(sizes)
        V      == n * Sum([j \in 1..n |-> sizes[j] * sizes[j]]) - Sum(sizes) * Sum(sizes)
        P      == D * D * (n - 1)
        Q      == n * V
        z10    == isqrt((P * 100) \div Q)
    IN IF n >= 3 /\ V > 0 /\ P > VOLUME_Z_THRESHOLD * VOLUME_Z_THRESHOLD * Q
         THEN <<InsiderAnomaly(ticker, latest.insider_name, "VOLUME",
                               IF P >= 25 * Q THEN One ELSE (z10 * One) \div 50,
                               IF D < 0 THEN -z10 ELSE z10,
                               "Transaction size z-score vs historical mean",
                               <<latest>>)>>
         ELSE <<>>

\* The volume rule.  With n sizes, D = n * (latest_size - mean) and
\* V = n * (n - 1) * variance: z * z = D * D * (n - 1) / (n * V).
\* z_score is kept in tenths.
VolumeRule(txns, ticker) ==
    LET latest == txns[1]
        priced == SelectSeq(txns, Priced)
        sizes  == [j \in 1..Len(priced) |-> DollarSize(priced[j])]
        n      == Len(sizes)
        D      == n * DollarSize(latest) - Sum(sizes)
        V      == n * Sum([j \in 1..n |-> sizes[j] * sizes[j]]) - Sum(sizes) * Sum(sizes)
        P      == D * D * (n - 1)
        Q      == n * V
        z10    == isqrt((P * 100) \div Q)
    IN IF n >= 3 /\ V > 0 /\ P > VOLUME_Z_THRESHOLD * VOLUME_Z_THRESHOLD * Q
         THEN <<InsiderAnomaly(ticker, latest.insider_name, "VOLUME",
                               IF P >= 25 * Q THEN One ELSE (z10 * One) \div 50,
                               IF D < 0 THEN -z10 ELSE z10,
                               "Transaction size z-score vs historical mean",
                               <<latest>>)>>
         ELSE <<>>

\* The frequency rule: days_since = (date.today() - txns[0].transaction_date).days
FrequencyRule(txns, profile, ticker) ==
    LET avg        == profile.avg_frequency_days
        days_since == today - txns[1].transaction_date
        ratio      == (One * days_since * avg.den) \div avg.num
    IN IF /\ avg.num > 0
          /\ Len(txns) >= 2
          /\ days_since > 0
          /\ One * days_since * avg.den < FREQUENCY_RATIO_THRESHOLD * avg.num
         THEN <<InsiderAnomaly(ticker, txns[1].insider_name, "FREQUENCY",
                               Min(One, One - ratio), 0,
                               "Traded after previous vs avg",
                               <<txns[1], txns[2]>>)>>
         ELSE <<>>

\* The holdings-percentage rule; `latest.shares_owned_after` is false for
\* None and for 0.
HoldingsRule(txns, ticker) ==
    LET latest       == txns[1]
        total_before == latest.shares + latest.shares_owned_after
    IN IF /\ latest.transaction_code = "S"
          /\ latest.shares_owned_after # None
          /\ latest.shares_owned_after # 0
          /\ total_before > 0
          /\ One * latest.shares > HOLDINGS_PCT_THRESHOLD * total_before
         THEN <<InsiderAnomaly(ticker, latest.insider_name, "HOLDINGS_PERCENTAGE",
                               Min(One, (One * latest.shares) \div total_before), 0,
                               "Sold part of holdings in single transaction",
                               <<latest>>)>>
         ELSE <<>>

_tier1_detect(txns, profile, ticker) ==
    IF txns = <<>> THEN <<>>
    ELSE VolumeRule(txns, ticker) \o FrequencyRule(txns, profile, ticker)
           \o HoldingsRule(txns, ticker)

_detect_cluster_selling(table, ticker) ==
    LET sellers == get_recent_sellers(table, ticker, settings.INSIDER_CLUSTER_WINDOW_DAYS)
        n       == Cardinality(sellers)
    IN IF n >= CLUSTER_SELLER_THRESHOLD
         THEN <<InsiderAnomaly(ticker, "MULTIPLE", "CLUSTER", Min(One, (One * n) \div 6), 0,
                               "insiders sold within window", <<>>)>>
         ELSE <<>>

\* The values _tier2_score can return when the model fits: 0.0 below ten
\* transactions, else np.clip(1.0 - (raw + 0.5), 0.0, 1.0) for the raw
\* decision value of the fitted forest.
Tier2Scores(txns) == IF Len(txns) < 10 THEN {0} ELSE {0, One \div 2, One}

\* model.fit / model.decision_function can raise only when they are called.
Tier2CanRaise(txns) == IF Len(txns) < 10 THEN {FALSE} ELSE BOOLEAN

unclipped(x, lo, hi) == x

\* np.clip
clip(x, lo, hi) == Max(lo, Min(hi, x))

IsCeoTitle(title) == title \in {"CEO", "Chief Executive Officer"}

IsCfoTitle(title) == title \in {"CFO", "Chief Financial Officer"}

RECURSIVE RoleWeight(_, _)
\* The loop over txns[:5] that raises role_weight.
RoleWeight(txns, role_weight) ==
    IF txns = <<>> THEN role_weight
    ELSE LET tx == Head(txns)
             w  == IF IsCeoTitle(tx.insider_title) THEN Max(role_weight, ROLE_WEIGHTS("ceo"))
                   ELSE IF IsCfoTitle(tx.insider_title)
                          THEN Max(role_weight, ROLE_WEIGHTS("cfo"))
                   ELSE IF tx.is_officer THEN Max(role_weight, ROLE_WEIGHTS("officer"))
                   ELSE role_weight
         IN RoleWeight(Tail(txns), w)

Prefix(s, n) == SubSeq(s, 1, Min(n, Len(s)))

_compute_anomaly_score(anomalies, ml_score, txns) ==
    IF anomalies = <<>> /\ ml_score = 0 THEN 0
    ELSE LET tier1_max  == IF anomalies = <<>> THEN 0
                           ELSE MaxOf({ anomalies[j].severity_score : j \in DOMAIN anomalies })
             type_count == Cardinality({ anomalies[j].anomaly_type : j \in DOMAIN anomalies })
             co_occurrence_boost ==
                 IF type_count > 1 THEN Min(One \div 5, type_count * (One \div 20)) ELSE 0
             base        == (6 * tier1_max + 4 * ml_score) \div 10 + co_occurrence_boost
             role_weight == RoleWeight(Prefix(txns, 5), One)
             first10     == Prefix(txns, 10)
             planned     == Len(SelectSeq(first10, LAMBDA tx : tx.is_10b5_1))
             n           == Max(Len(first10), 1)
             \* 1.0 - planned_ratio * (1.0 - PLANNED_TRADE_DISCOUNT)
             planned_discount ==
                 One - (planned * (One - PLANNED_TRADE_DISCOUNT)) \div n
         IN clip((((base * role_weight) \div One) * planned_discount) \div One, 0, One)

derive_sentiment_from_threshold(anomaly_score, txns) ==
    LET sells == Len(SelectSeq(txns, LAMBDA t : t.transaction_code = "S"))
        buys  == Len(SelectSeq(txns, LAMBDA t : t.transaction_code = "P"))
    IN IF anomaly_score >= 6000 /\ sells > buys THEN "BEARISH"
       ELSE IF buys > sells THEN "BULLISH"
       ELSE "NEUTRAL"

_derive_sentiment(anomaly_score, txns) ==
    LET sells == Len(SelectSeq(txns, LAMBDA t : t.transaction_code = "S"))
        buys  == Len(SelectSeq(txns, LAMBDA t : t.transaction_code = "P"))
    IN IF anomaly_score > 6000 /\ sells > buys THEN "BEARISH"
       ELSE IF buys > sells THEN "BULLISH"
       ELSE "NEUTRAL"

\* The orders in which `for name in insiders` can walk the set.
RECURSIVE Enumerations(_)
Enumerations(S) ==
    IF S = {} THEN {<<>>}
    ELSE UNION { { <<x>> \o s : s \in Enumerations(S \ {x}) } : x \in S }

RECURSIVE Tier1All(_, _, _, _, _)
\* The loop of analyze_ticker over the insiders: those without a profile
\* are skipped.
Tier1All(names, txns, table, aggregate, ticker) ==
    IF names = <<>> THEN <<>>
    ELSE LET name == Head(names)
             rest == Tier1All(Tail(names), txns, table, aggregate, ticker)
         IN IF ~HasProfile(aggregate, ticker, name) THEN rest
            ELSE _tier1_detect(SelectSeq(txns, LAMBDA t : t.insider_name = name),
                               get_profile(table, aggregate, ticker, name), ticker) \o rest

\* The Field(ge=0.0, le=1.0) constraints of InsiderAnomaly and InsiderSignal.
Validates(anomaly_score, anomalies) ==
    /\ 0 <= anomaly_score /\ anomaly_score <= One
    /\ \A j \in DOMAIN anomalies :
         0 <= anomalies[j].severity_score /\ anomalies[j].severity_score <= One

AnalysisIdle ==
    [pc |-> "idle", ticker |-> "", day |-> 0, txns |-> <<>>, fit_raised |-> FALSE,
     ml_score |-> 0, signal |-> InsiderSignal(""), before |-> <<>>, scans |-> 0]

\* analyze_ticker(ticker), from the call to the return or the exception.
analyze_ticker(ticker) ==
    /\ analysis.pc = "idle"
    /\ analysis.scans < MaxScans
    /\ \E txns \in get_transactions(insider_transactions, ticker, settings.INSIDER_LOOKBACK_DAYS) :
         LET entered == [analysis EXCEPT !.ticker = ticker, !.day = today, !.txns = txns,
                                         !.scans = @ + 1, !.fit_raised = FALSE,
                                         !.ml_score = 0, !.before = insider_anomalies]
         IN IF txns = <<>>
              THEN /\ analysis' = [entered EXCEPT !.pc = "returned",
                                                  !.signal = InsiderSignal(ticker)]
                   /\ UNCHANGED insider_anomalies
              ELSE \E names \in Enumerations({ txns[j].insider_name : j \in DOMAIN txns }),
                      fit_raises \in Tier2CanRaise(txns),
                      ml_score \in Tier2Scores(txns) :
                     LET all_anomalies ==
                             Tier1All(names, txns, insider_transactions,
                                      insider_profiles_daily, ticker)
                               \o _detect_cluster_selling(insider_transactions, ticker)
                         anomaly_score == _compute_anomaly_score(all_anomalies, ml_score, txns)
                         sentiment     == _derive_sentiment(anomaly_score, txns)
                     IN IF fit_raises
                          THEN /\ analysis' = [entered EXCEPT !.pc = "raised",
                                                              !.fit_raised = TRUE]
                               /\ UNCHANGED insider_anomalies
                        ELSE IF ~Validates(anomaly_score, all_anomalies)
                          THEN /\ analysis' = [entered EXCEPT !.pc = "raised",
                                                              !.ml_score = ml_score]
                               /\ UNCHANGED insider_anomalies
                        ELSE /\ analysis' =
                                  [entered EXCEPT
                                     !.pc = "returned", !.ml_score = ml_score,
                                     !.signal = [InsiderSignal(ticker) EXCEPT
                                                   !.anomaly_score = anomaly_score,
                                                   !.anomalies = all_anomalies,
                                                   !.insider_sentiment = sentiment]]
                             /\ insider_anomalies' = SaveAll(insider_anomalies, all_anomalies)
    /\ UNCHANGED <<insider_transactions, monitor_watermarks, _running, _tasks, task, ctl,
                   ingest, today, edgar, on_new_filings_calls, n_new_returned, call,
                   insider_profiles_daily, insider_alerts, composite, alerting, parser,
                   readback, settings, direct>>

\* The caller has its signal, or its exception, and may ask again.
AnalysisDone ==
    /\ analysis.pc \in {"returned", "raised"}
    /\ analysis' = [AnalysisIdle EXCEPT !.scans = analysis.scans]
    /\ UNCHANGED <<insider_transactions, monitor_watermarks, _running, _tasks, task, ctl,
                   ingest, today, edgar, on_new_filings_calls, n_new_returned, call,
                   insider_profiles_daily, insider_anomalies, insider_alerts, composite,
                   alerting, parser, readback, settings, direct>>

----------------------------------------------------------------------------
(* Direct calls of the analyzer's helper methods, with arguments the       *)
(* caller builds.                                                          *)

DirectIdle ==
    [pc |-> "idle", anomaly_score |-> 0, txns |-> <<>>, sentiment |-> "", anomalies |-> <<>>]

\* A transaction of the given code; the other fields are those of a sale.
CodeTx(code) ==
    [Tx("AAPL", "Jane", 0, 1, code, 1, 0) EXCEPT !.shares_owned_after = None]

\* TransactionCode
TransactionCodes == {"P", "S", "A", "D", "C", "M", "O"}

\* Anomaly scores around the 0.6 of _derive_sentiment.
SentimentScores == {0, 5999, 6000, 6001, One}

\* InsiderAnalyzer._derive_sentiment(anomaly_score, txns)
CallDeriveSentiment ==
    /\ direct.pc = "idle"
    /\ \E anomaly_score \in SentimentScores, n \in 0..MaxCodes :
         \E codes \in [1..n -> TransactionCodes] :
           LET txns == [j \in 1..n |-> CodeTx(codes[j])]
           IN direct' = [DirectIdle EXCEPT
                           !.pc = "sentiment", !.anomaly_score = anomaly_score,
                           !.txns = txns,
                           !.sentiment = _derive_sentiment(anomaly_score, txns)]
    /\ UNCHANGED <<insider_transactions, monitor_watermarks, _running, _tasks, task, ctl,
                   ingest, today, edgar, on_new_filings_calls, n_new_returned, call,
                   insider_profiles_daily, insider_anomalies, insider_alerts, analysis,
                   composite, alerting, parser, readback, settings>>

\* The profile the direct caller hands to _tier1_detect: a trade every 30
\* days.
DirectProfile ==
    [insider_name |-> "Jane", ticker |-> "AAPL", total_transactions |-> 20,
     avg_frequency_days |-> [num |-> 30, den |-> 1], last_transaction_date |-> 0]

\* A sale of today of the given dollar size at the given price.
SizedTx(size, price) ==
    [Tx("AAPL", "Jane", today, size, "S", price, today) EXCEPT !.shares_owned_after = None]

\* InsiderAnalyzer._tier1_detect(txns, profile, ticker) on a latest
\* transaction of any price (None, 0 or $1) and earlier priced transactions.
CallTier1Detect ==
    /\ direct.pc = "idle"
    /\ \E n \in 0..(MaxSizes - 1), latest \in 1..MaxDollars, price \in {None, 0, 1} :
         \E sizes \in [1..n -> 1..MaxDollars] :
           LET txns == <<SizedTx(latest, price)>> \o [j \in 1..n |-> SizedTx(sizes[j], 1)]
           IN direct' = [DirectIdle EXCEPT
                           !.pc = "tier1", !.txns = txns,
                           !.anomalies = _tier1_detect(txns, DirectProfile, "AAPL")]
    /\ UNCHANGED <<insider_transactions, monitor_watermarks, _running, _tasks, task, ctl,
                   ingest, today, edgar, on_new_filings_calls, n_new_returned, call,
                   insider_profiles_daily, insider_anomalies, insider_alerts, analysis,
                   composite, alerting, parser, readback, settings>>

DirectDone ==
    /\ direct.pc # "idle"
    /\ direct' = DirectIdle
    /\ UNCHANGED <<insider_transactions, monitor_watermarks, _running, _tasks, task, ctl,
                   ingest, today, edgar, on_new_filings_calls, n_new_returned, call,
                   insider_profiles_daily, insider_anomalies, insider_alerts, analysis,
                   composite, alerting, parser, readback, settings>>

----------------------------------------------------------------------------
(* The transaction histories the analysed store is loaded with.  Sizes are *)
(* small integers: every rule of the engine is invariant under a change of *)
(* the dollar unit.                                                        *)

ATx(nm, td, sh, cd, pr, owned, title, planned) ==
    [Tx("AAPL", nm, td, sh, cd, pr, td) EXCEPT
        !.shares_owned_after = owned, !.insider_title = title,
        !.is_officer = (title # ""), !.is_10b5_1 = planned]

\* n earlier sales of Jane, `spacing` days apart, of 1 or 2 shares at $1.
Earlier(n, spacing) ==
    [j \in 1..n |-> ATx("Jane", 0 - j * spacing, 1 + (j % 2), "S", 1, None, "", FALSE)]

\* m other insiders, each with one sale: Bob on the day of Jane's latest
\* transaction, Dan on the first day of the cluster window.
Others(m) ==
    [j \in 1..m |-> ATx(<<"Bob", "Carl", "Dan">>[j],
                        <<1, 0 - 5, 1 - INSIDER_CLUSTER_WINDOW_DAYS>>[j],
                        5, "S", 1, None, "", FALSE)]

\* Rows no analysis of AAPL may use: one of another ticker, one older than
\* the lookback window.
Unrelated ==
    <<Tx("MSFT", "Bob", 0, 200, "S", 150, 0),
      ATx("Eve", 0 - (INSIDER_LOOKBACK_DAYS + 5), 9, "P", 1, None, "CEO", FALSE)>>

\* Five sales of 1,000 shares at $150 and a latest sale of 50,000 shares at
\* $150, in units of 1,000 shares and $150.
VolumeScenario ==
    [j \in 1..5 |-> ATx("Jane", 0 - j * 30, 1, "S", 1, None, "", FALSE)]
        \o <<ATx("Jane", 1, 50, "S", 1, None, "", FALSE)>>

Histories ==
    { Earlier(n, spacing) \o <<ATx("Jane", 1, sh, cd, pr, owned, title, planned)>>
        \o Others(m) \o Unrelated :
        n \in {0, 2, 5, 9}, spacing \in {1, 30}, sh \in {1, 40},
        cd \in {"S", "P"}, pr \in {1, None}, owned \in {None, 0, 60},
        title \in {"", "CEO"}, planned \in BOOLEAN, m \in {0, 3} }
    \cup { <<>>, Unrelated, VolumeScenario }

RECURSIVE upsert_transactions(_, _)
\* The table after upsert_transactions(txns) has returned.
upsert_transactions(table, txns) ==
    IF txns = <<>> THEN table
    ELSE upsert_transactions(upsert_transaction(table, Head(txns)).rows, Tail(txns))

\* An ingest has stored a history.
Ingested ==
    /\ insider_transactions = EmptyBag
    /\ \E h \in Histories :
         /\ h # <<>>
         /\ insider_transactions' = upsert_transactions(insider_transactions, h)
    /\ UNCHANGED <<monitor_watermarks, _running, _tasks, task, ctl, ingest, today, edgar,
                   on_new_filings_calls, n_new_returned, call, insider_profiles_daily,
                   insider_anomalies, insider_alerts, analysis, composite, alerting,
                   parser, readback, settings, direct>>

----------------------------------------------------------------------------
(* CompositeSignalEngine (src/src/agents/composite_signal.py).  The scores *)
(* that enter the blend are in units of 1e-5, the arithmetic is in 1e-6.   *)

\* The float 1.0 in units of 1e-5.
Fine == 100000

\* round(x, 4) of x given in 1e-6: to the nearest 1e-4, ties to even.
round4(micro) ==
    LET q == micro \div 100
        r == micro % 100
    IN 100 * (IF r > 50 \/ (r = 50 /\ q % 2 = 1) THEN q + 1 ELSE q)

blend_without_boost(filing_score, insider_score) ==
    round4(5 * filing_score + 5 * insider_score) \div 10

_blend_scores(filing_score, insider_score) ==
    LET blended == 5 * filing_score + 5 * insider_score
        boosted == IF filing_score > Fine \div 2 /\ insider_score > Fine \div 2
                     THEN Min(10 * Fine, (blended * 12) \div 10)
                     ELSE blended
    IN round4(boosted) \div 10

\* f"{x:.2f}" of a score in units of 1e-5: the nearest hundredth.  On a
\* decimal tie the double's binary expansion decides in the code; the even
\* neighbour stands for it here.
fmt2(score) ==
    LET q == score \div 1000
        r == score % 1000
    IN IF r > 500 \/ (r = 500 /\ q % 2 = 1) THEN q + 1 ELSE q

\* The text of the template, by its parts:
\* "{action} for {ticker}. Composite score: {composite:.2f}, insider
\* sentiment: {...}, anomalies detected: {len(signal.anomalies)}."
Template(action, ticker, signal, composite_score) ==
    [action |-> action, ticker |-> ticker, composite_score |-> fmt2(composite_score),
     insider_sentiment |-> signal.insider_sentiment,
     anomalies_detected |-> Len(signal.anomalies)]

fallback_recommendation_inclusive(ticker, signal, composite_score) ==
    Template(IF composite_score >= 7 * (Fine \div 10) THEN "Strong sell signal"
             ELSE IF composite_score >= 4 * (Fine \div 10) THEN "Elevated caution"
             ELSE "No immediate action",
             ticker, signal, composite_score)

_fallback_recommendation(ticker, signal, composite_score) ==
    Template(IF composite_score > 7 * (Fine \div 10) THEN "Strong sell signal"
             ELSE IF composite_score > 4 * (Fine \div 10) THEN "Elevated caution"
             ELSE "No immediate action",
             ticker, signal, composite_score)

\* Scores on both sides of 0.5, on rounding ties and next to them.
UnitScores == {0, 30000, 50000, 50001, 50003, 50004, 60000, 83333, 83334, 83335, 99999, Fine}

\* signal_score is an unconstrained float of AlphaSignal.
FilingScores == UnitScores \cup {0 - 50000, 3 * Fine}

\* The sentiment and the anomalies of the insider signals handed to compose.
ComposedSignals ==
    { [insider_sentiment |-> "NEUTRAL", anomalies |-> <<>>],
      [insider_sentiment |-> "BULLISH", anomalies |-> <<>>],
      [insider_sentiment |-> "BEARISH",
       anomalies |-> <<InsiderAnomaly("AAPL", "MULTIPLE", "CLUSTER", One \div 2, 0,
                                      "insiders sold within window", <<>>)>>] }

CompositeIdle ==
    [pc |-> "idle", filing_score |-> None, insider_score |-> None, blended |-> 0,
     signal |-> InsiderSignal(""), llm_raised |-> FALSE]

\* _blend_scores(filing_score, insider_score) called with two scores of [0, 1].
BlendScores ==
    /\ composite.pc = "idle"
    /\ \E f \in UnitScores, i \in UnitScores :
         composite' = [CompositeIdle EXCEPT !.pc = "blended", !.filing_score = f,
                                            !.insider_score = i,
                                            !.blended = _blend_scores(f, i)]
    /\ UNCHANGED <<insider_transactions, monitor_watermarks, _running, _tasks, task, ctl,
                   ingest, today, edgar, on_new_filings_calls, n_new_returned, call,
                   insider_profiles_daily, insider_anomalies, insider_alerts, analysis,
                   alerting, parser, readback, settings, direct>>

\* compose(ticker, filing_signal, insider_signal); each signal may be None.
compose(ticker) ==
    /\ composite.pc = "idle"
    /\ \E f \in FilingScores \cup {None}, i \in UnitScores \cup {None},
          given \in ComposedSignals, llm_raises \in BOOLEAN :
         LET base          == IF i = None THEN InsiderSignal(ticker)
                              ELSE [InsiderSignal(ticker) EXCEPT
                                      !.anomaly_score = i,
                                      !.insider_sentiment = given.insider_sentiment,
                                      !.anomalies = given.anomalies]
             filing_score  == IF f = None THEN 0 ELSE f
             insider_score == base.anomaly_score
             blended       == _blend_scores(filing_score, insider_score)
             enriched      == [base EXCEPT !.composite_alpha_score = blended]
             recommendation ==
                 IF llm_raises THEN _fallback_recommendation(ticker, enriched, blended)
                 ELSE "narrative"
         IN composite' = [CompositeIdle EXCEPT
                            !.pc = "composed", !.filing_score = f, !.insider_score = i,
                            !.blended = blended, !.llm_raised = llm_raises,
                            !.signal = [enriched EXCEPT !.recommendation = recommendation]]
    /\ UNCHANGED <<insider_transactions, monitor_watermarks, _running, _tasks, task, ctl,
                   ingest, today, edgar, on_new_filings_calls, n_new_returned, call,
                   insider_profiles_daily, insider_anomalies, insider_alerts, analysis,
                   alerting, parser, readback, settings, direct>>

CompositeDone ==
    /\ composite.pc # "idle"
    /\ composite' = CompositeIdle
    /\ UNCHANGED <<insider_transactions, monitor_watermarks, _running, _tasks, task, ctl,
                   ingest, today, edgar, on_new_filings_calls, n_new_returned, call,
                   insider_profiles_daily, insider_anomalies, insider_alerts, analysis,
                   alerting, parser, readback, settings, direct>>

----------------------------------------------------------------------------
(* AlertService (src/src/services/alert_service.py) and the alert table    *)

\* The value of insider_alerts.delivered in a row whose INSERT names no
\* such column: the default of the column.
delivered_default == FALSE

\* save_alert with a uniqueness rule on the alert's columns: a second equal
\* alert is not stored.
save_alert_once(table, ticker, anomaly_score, insider_sentiment, recommendation, composite_alpha_score) ==
    IF \E j \in DOMAIN table :
          /\ table[j].ticker = ticker
          /\ table[j].anomaly_score = anomaly_score
          /\ table[j].insider_sentiment = insider_sentiment
         THEN table
         ELSE Append(table, [id |-> Len(table) + 1,
                             ticker |-> ticker, anomaly_score |-> anomaly_score,
                             insider_sentiment |-> insider_sentiment,
                             recommendation |-> recommendation,
                             composite_alpha_score |-> composite_alpha_score,
                             delivered |-> delivered_default])

\* save_alert: the row INSERTed into insider_alerts, with the id the
\* sequence of the table hands out.
save_alert(table, ticker, anomaly_score, insider_sentiment, recommendation, composite_alpha_score) ==
    Append(table, [id |-> Len(table) + 1,
                   ticker |-> ticker, anomaly_score |-> anomaly_score,
                   insider_sentiment |-> insider_sentiment,
                   recommendation |-> recommendation,
                   composite_alpha_score |-> composite_alpha_score,
                   delivered |-> delivered_default])

\* get_alerts(delivered, limit): ORDER BY created_at DESC LIMIT; the table
\* is kept in insertion order.  The Optional[bool] is <<>> for None and
\* <<b>> for the boolean b.
get_alerts(table, delivered, limit) ==
    LET rows == IF delivered = <<>> THEN table
                ELSE SelectSeq(table, LAMBDA r : r.delivered = delivered[1])
    IN SubSeq(Reverse(rows), 1, Min(limit, Len(rows)))

SkipsAtThreshold(sig, threshold) == sig.anomaly_score <= threshold

\* `if sig.anomaly_score < self.threshold: continue`
Skips(sig, threshold) == sig.anomaly_score < threshold

RECURSIVE EvaluateLoop(_, _, _)
\* The loop of evaluate over signals; st is [alerts, actionable].
EvaluateLoop(signals, threshold, st) ==
    IF signals = <<>> THEN st
    ELSE LET sig == Head(signals)
         IN IF Skips(sig, threshold) THEN EvaluateLoop(Tail(signals), threshold, st)
            ELSE EvaluateLoop(Tail(signals), threshold,
                   [alerts |-> save_alert(st.alerts, sig.ticker, sig.anomaly_score,
                                          sig.insider_sentiment, sig.recommendation,
                                          sig.composite_alpha_score),
                    actionable |-> Append(st.actionable, sig)])

\* The signals handed to evaluate: scores below, at and above the threshold.
SignalUniverse ==
    { [InsiderSignal(tk) EXCEPT !.anomaly_score = s] :
        tk \in {"AAPL", "MSFT"},
        s \in {INSIDER_ANOMALY_THRESHOLD - 1, INSIDER_ANOMALY_THRESHOLD,
               INSIDER_ANOMALY_THRESHOLD + 1} }

AlertingIdle ==
    [pc |-> "idle", signals |-> <<>>, actionable |-> <<>>, before |-> <<>>,
     limit |-> 0, active |-> <<>>]

\* evaluate(signals), from the call to the return.
evaluate ==
    /\ alerting.pc = "idle"
    /\ \E n \in 0..MaxSignals : \E signals \in [1..n -> SignalUniverse] :
         /\ Len(insider_alerts) + n <= MaxAlerts
         /\ LET st == EvaluateLoop(signals, INSIDER_ANOMALY_THRESHOLD,
                                   [alerts |-> insider_alerts, actionable |-> <<>>])
            IN /\ insider_alerts' = st.alerts
               /\ alerting' = [AlertingIdle EXCEPT
                                 !.pc = "returned", !.signals = signals,
                                 !.actionable = st.actionable, !.before = insider_alerts]
    /\ UNCHANGED <<insider_transactions, monitor_watermarks, _running, _tasks, task, ctl,
                   ingest, today, edgar, on_new_filings_calls, n_new_returned, call,
                   insider_profiles_daily, insider_anomalies, analysis, composite, parser,
                   readback, settings, direct>>

\* get_active_alerts(limit), GET /alerts?limit= and `insider alerts --limit`:
\* get_alerts(delivered=False, limit).
get_active_alerts ==
    /\ alerting.pc = "idle"
    /\ \E limit \in 1..MaxAlerts :
         alerting' = [AlertingIdle EXCEPT
                        !.pc = "listed", !.limit = limit, !.before = insider_alerts,
                        !.active = get_alerts(insider_alerts, <<FALSE>>, limit)]
    /\ UNCHANGED <<insider_transactions, monitor_watermarks, _running, _tasks, task, ctl,
                   ingest, today, edgar, on_new_filings_calls, n_new_returned, call,
                   insider_profiles_daily, insider_anomalies, insider_alerts, analysis,
                   composite, parser, readback, settings, direct>>

AlertingDone ==
    /\ alerting.pc \in {"returned", "listed"}
    /\ alerting' = AlertingIdle
    /\ UNCHANGED <<insider_transactions, monitor_watermarks, _running, _tasks, task, ctl,
                   ingest, today, edgar, on_new_filings_calls, n_new_returned, call,
                   insider_profiles_daily, insider_anomalies, insider_alerts, analysis,
                   composite, parser, readback, settings, direct>>

----------------------------------------------------------------------------
(* A client of the anomaly table: save_anomaly, then get_anomalies.        *)

\* get_anomalies(ticker, min_score, limit): ORDER BY detected_at DESC LIMIT;
\* ticker = "" stands for None.  The records are rebuilt from the columns.
get_anomalies(table, ticker, min_score, limit) ==
    LET rows == SelectSeq(Reverse(table),
                          LAMBDA r : /\ (ticker = "" \/ r.ticker = ticker)
                                     /\ r.severity_score >= min_score)
        page == Prefix(rows, limit)
    IN [j \in 1..Len(page) |->
          [ticker |-> page[j].ticker, insider_name |-> page[j].insider_name,
           anomaly_type |-> page[j].anomaly_type,
           severity_score |-> page[j].severity_score, z_score |-> page[j].z_score,
           description |-> page[j].description, transactions |-> <<>>]]

\* Anomalies with and without evidence.
AnomalyUniverse ==
    { InsiderAnomaly("AAPL", nm, ty, sev, z, "d", ev) :
        nm \in {"Jane", "MULTIPLE"}, ty \in {"VOLUME", "CLUSTER"}, sev \in {0, 4000, One},
        z \in {0 - 27, 0}, ev \in {<<>>, <<ATx("Jane", 0, 40, "S", 1, 60, "", FALSE)>>} }

ReadbackIdle ==
    [pc |-> "idle", anomaly |-> InsiderAnomaly("", "", "", 0, 0, "", <<>>),
     records |-> <<>>]

\* save_anomaly(a) by the client.
SaveAnomaly ==
    /\ readback.pc = "idle"
    /\ Len(insider_anomalies) < MaxAnomalyRows
    /\ \E a \in AnomalyUniverse :
         /\ insider_anomalies' = save_anomaly(insider_anomalies, a)
         /\ readback' = [ReadbackIdle EXCEPT !.pc = "saved", !.anomaly = a]
    /\ UNCHANGED <<insider_transactions, monitor_watermarks, _running, _tasks, task, ctl,
                   ingest, today, edgar, on_new_filings_calls, n_new_returned, call,
                   insider_profiles_daily, insider_alerts, analysis, composite, alerting,
                   parser, settings, direct>>

\* get_anomalies() by the client, with the defaults min_score = 0.0, limit = 100.
GetAnomalies ==
    /\ readback.pc = "saved"
    /\ \E ticker \in {"", readback.anomaly.ticker} :
         readback' = [readback EXCEPT
                        !.pc = "read",
                        !.records = get_anomalies(insider_anomalies, ticker, 0, 100)]
    /\ UNCHANGED <<insider_transactions, monitor_watermarks, _running, _tasks, task, ctl,
                   ingest, today, edgar, on_new_filings_calls, n_new_returned, call,
                   insider_profiles_daily, insider_anomalies, insider_alerts, analysis,
                   composite, alerting, parser, settings, direct>>

ReadbackDone ==
    /\ readback.pc = "read"
    /\ readback' = ReadbackIdle
    /\ UNCHANGED <<insider_transactions, monitor_watermarks, _running, _tasks, task, ctl,
                   ingest, today, edgar, on_new_filings_calls, n_new_returned, call,
                   insider_profiles_daily, insider_anomalies, insider_alerts, analysis,
                   composite, alerting, parser, settings, direct>>

----------------------------------------------------------------------------
(* A direct caller of _parse_feed_entries                                  *)

\* An atom:entry is the sequence of its atom:id texts: <<>> or <<id>>.
Entries == {<<>>} \cup { <<a>> : a \in 1..MaxIds }

Pages ==
    [well_formed : BOOLEAN,
     entries : UNION { [1..n -> Entries] : n \in 0..MaxEntries }]

ParsedIdle == [pc |-> "idle", xml_text |-> NoXml, watermark |-> 0, accessions |-> <<>>]

ParseFeedEntries ==
    /\ parser.pc = "idle"
    /\ \E xml_text \in Pages, watermark \in 0..MaxIds :
         parser' = [pc |-> "returned", xml_text |-> xml_text, watermark |-> watermark,
                    accessions |-> _parse_feed_entries(xml_text, watermark)]
    /\ UNCHANGED <<insider_transactions, monitor_watermarks, _running, _tasks, task, ctl,
                   ingest, today, edgar, on_new_filings_calls, n_new_returned, call,
                   insider_profiles_daily, insider_anomalies, insider_alerts, analysis,
                   composite, alerting, readback, settings, direct>>

ParsedDone ==
    /\ parser.pc = "returned"
    /\ parser' = ParsedIdle
    /\ UNCHANGED <<insider_transactions, monitor_watermarks, _running, _tasks, task, ctl,
                   ingest, today, edgar, on_new_filings_calls, n_new_returned, call,
                   insider_profiles_daily, insider_anomalies, insider_alerts, analysis,
                   composite, alerting, readback, settings, direct>>

----------------------------------------------------------------------------
(* Initial state: an empty database, a constructed monitor that was never  *)
(* started, no filing published yet.                                       *)

\* Every object constructed, every table empty.
Constructed ==
    /\ insider_transactions = EmptyBag
    /\ monitor_watermarks = NoWatermarks
    /\ _running = FALSE
    /\ _tasks = <<>>
    /\ task = <<>>
    /\ ctl = [pc |-> "idle", last |-> "none", starts |-> 0]
    /\ ingest = [w \in Ingesters |-> IngestIdle]
    /\ today = 1
    /\ edgar = <<>>
    /\ on_new_filings_calls = <<>>
    /\ n_new_returned = 0
    /\ call = CallIdle
    /\ insider_profiles_daily = {}
    /\ insider_anomalies = <<>>
    /\ insider_alerts = <<>>
    /\ analysis = AnalysisIdle
    /\ composite = CompositeIdle
    /\ alerting = AlertingIdle
    /\ parser = ParsedIdle
    /\ readback = ReadbackIdle
    /\ direct = DirectIdle

Init ==
    /\ Constructed
    /\ settings = Settings

\* The same start under any of the configurations.
InitConfigured ==
    /\ Constructed
    /\ settings \in Configurations

NextStore ==
    \/ CallUpsertTransactions
    \/ CallUpsertRow
    \/ CallReturn
    \/ CallReplay
    \/ CallFinish

SpecStore == Init /\ [][NextStore]_vars

Environment ==
    \/ \E gap \in 0..MaxGap : FileForm4(gap)
    \/ AdvanceDay

PathA(t) ==
    \/ AtomLoop(t)
    \/ HttpGet(t)
    \/ GetWatermark(t)
    \/ SetWatermark(t)

PathAFaults(t) ==
    \/ HttpGetRaises(t)
    \/ GetWatermarkRaises(t)
    \/ ProcessAccessionRaises(t)
    \/ SetWatermarkRaises(t)

PathB(t) ==
    \/ BatchLoop(t)
    \/ RateSleep(t)
    \/ UpsertRow(t)
    \/ Hook(t)

PathBFaults(t) ==
    \/ BatchFetchRaises(t)
    \/ UpsertRaises(t)
    \/ HookRaises(t)

\* `insider monitor` (cli.py): the owner calls start() once and, on SIGINT,
\* stop() once.
CliStart == ctl.last = "none" /\ Start

CliStop == ctl.last = "start" /\ StopCall

\* The monitor run by `insider monitor`, with EDGAR and with failing I/O.
Next ==
    \/ CliStart
    \/ CliStop
    \/ StopReturn
    \/ Environment
    \/ \E t \in DOMAIN task :
         \/ TaskCancelled(t)
         \/ LoopExit(t)
         \/ PathA(t)
         \/ PathAFaults(t)
         \/ PathB(t)
         \/ PathBFaults(t)

Spec == Init /\ [][Next]_vars

\* The monitor under an owner that calls start() and stop() in any order,
\* each call after the previous one returned; EDGAR publishes one filing.
NextOwner ==
    \/ Start
    \/ StopCall
    \/ StopReturn
    \/ edgar = <<>> /\ FileForm4(0)
    \/ \E t \in DOMAIN task :
         \/ TaskCancelled(t)
         \/ LoopExit(t)
         \/ PathA(t)
         \/ PathB(t)

SpecOwner == Init /\ [][NextOwner]_vars

\* Path A by itself, under any owner: the batch sweep is never scheduled.
NextPathA ==
    \/ Start
    \/ StopCall
    \/ StopReturn
    \/ FileForm4(0)
    \/ AdvanceDay
    \/ \E t \in DOMAIN task :
         \/ TaskCancelled(t)
         \/ LoopExit(t)
         \/ PathA(t)

SpecPathA == Init /\ [][NextPathA]_vars

\* Path A by itself in a monitor that is started and never stopped, every
\* feed fetch succeeding; each poll task is scheduled again and again.
NextPathAOnly ==
    \/ CliStart
    \/ FileForm4(0)
    \/ AdvanceDay
    \/ \E t \in DOMAIN task : PathA(t)

FairSpecPathA ==
    /\ Init
    /\ [][NextPathAOnly]_vars
    /\ WF_vars(CliStart)
    /\ WF_vars(\E t \in DOMAIN task : PathA(t))

\* A batch task has completed a sweep that it began today.
SweptToday ==
    \E t \in DOMAIN task :
        /\ task[t].kind = "batch"
        /\ task[t].pc = "wait"
        /\ task[t].k >= 1
        /\ task[t].cutoff = today - overlap_days

\* Path B by itself in a monitor that is started and never stopped, every
\* fetch succeeding; the hourly sweep completes at least once a day.
NextPathBOnly ==
    \/ CliStart
    \/ \E gap \in 0..MaxGap : FileForm4(gap)
    \/ SweptToday /\ AdvanceDay
    \/ \E t \in DOMAIN task : PathB(t)

FairSpecPathB ==
    /\ Init
    /\ [][NextPathBOnly]_vars
    /\ WF_vars(CliStart)
    /\ WF_vars(\E t \in DOMAIN task : PathB(t))

\* The writers of insider_transactions side by side: the monitor's sweep,
\* POST /insider/ingest and `insider ingest`.
NextWriters ==
    \/ CliStart
    \/ Environment
    \/ \E t \in DOMAIN task : PathB(t)
    \/ \E w \in Ingesters :
         \/ IngestCall(w)
         \/ IngestRateSleep(w)
         \/ IngestUpsertRow(w)

SpecWriters == Init /\ [][NextWriters]_vars

\* The anomaly engine over a store that ingests have loaded.
Tickers == {"AAPL", "TSLA"}

NextAnalysis ==
    \/ Ingested
    \/ RefreshAggregate
    \/ AdvanceDay
    \/ \E ticker \in Tickers : analyze_ticker(ticker)
    \/ AnalysisDone

SpecAnalysis == Init /\ [][NextAnalysis]_vars

\* Direct calls of _derive_sentiment.
NextSentiment ==
    \/ CallDeriveSentiment
    \/ DirectDone

SpecSentiment == Init /\ [][NextSentiment]_vars

\* Direct calls of _tier1_detect.
NextTier1 ==
    \/ CallTier1Detect
    \/ DirectDone

SpecTier1 == Init /\ [][NextTier1]_vars

\* The anomaly engine under every configuration.
SpecConfigured == InitConfigured /\ [][NextAnalysis]_vars

\* The composite engine called with every pair of scores.
NextComposite ==
    \/ BlendScores
    \/ \E ticker \in Tickers : compose(ticker)
    \/ CompositeDone

SpecComposite == Init /\ [][NextComposite]_vars

\* The alert service called with every short list of signals.
NextAlerts ==
    \/ evaluate
    \/ get_active_alerts
    \/ AlertingDone

SpecAlerts == Init /\ [][NextAlerts]_vars

\* A client that saves anomalies and reads them back.
NextAnomalies ==
    \/ SaveAnomaly
    \/ GetAnomalies
    \/ ReadbackDone

SpecAnomalies == Init /\ [][NextAnomalies]_vars

\* _parse_feed_entries called with every short page and every watermark.
NextParse ==
    \/ ParseFeedEntries
    \/ ParsedDone

SpecParse == Init /\ [][NextParse]_vars

----------------------------------------------------------------------------
(* Properties of InsiderStore.upsert_transaction(s), under SpecStore       *)

BatchKeys(txns) == { IdentityKey(txns[j]) : j \in 1..Len(txns) }

\* C1: replaying a batch is a no-op: the second upsert_transactions(batch)
\* returns 0 and leaves the stored rows exactly as the first call left them.
C1_ReplayIsNoOp ==
    (call.pc = "returned" /\ call.run = 2) =>
        /\ call.inserted = 0
        /\ insider_transactions = call.after1
        /\ BagCardinality(insider_transactions) = BagCardinality(call.after1)

\* A replay has returned whose first run inserted rows into a store that
\* already held other rows.
C1_Witness ==
    /\ call.pc = "returned"
    /\ call.run = 2
    /\ call.ret1 >= 1
    /\ BagCardinality(call.after1) > call.ret1

\* C2: the count upsert_transactions returns is the number of distinct
\* identity keys of the batch that were not stored before the call, and it
\* is the growth of the row count.
C2_CountIsNewKeys ==
    call.pc = "returned" =>
        /\ call.inserted = Cardinality(BatchKeys(call.txns) \ StoredKeys(call.before))
        /\ call.inserted =
             BagCardinality(insider_transactions) - BagCardinality(call.before)

\* A call has returned a count >= 1 for a batch that repeats a key and that
\* contains a key stored before the call.
C2_Witness ==
    /\ call.pc = "returned"
    /\ call.inserted >= 1
    /\ Cardinality(BatchKeys(call.txns)) < Len(call.txns)
    /\ BatchKeys(call.txns) \cap StoredKeys(call.before) # {}

\* C3: upsert_transaction(tx) returns true iff tx's identity key was not
\* stored; on a conflict the table is left as it was, row for row and
\* attribute for attribute; otherwise exactly the row tx is added.
C3_ConflictIsSilentNoOp ==
    call.last_tx # NoTx =>
        /\ call.last_created <=> (IdentityKey(call.last_tx) \notin StoredKeys(call.last_before))
        /\ ~call.last_created => insider_transactions = call.last_before
        /\ call.last_created =>
             insider_transactions = call.last_before (+) SetToBag({call.last_tx})

\* upsert_transaction has returned false for a tx that differs from the
\* stored row of its key in a non-key attribute.
C3_Witness ==
    /\ call.last_tx # NoTx
    /\ ~call.last_created
    /\ ~BagIn(call.last_tx, insider_transactions)

----------------------------------------------------------------------------
(* Concurrent writers, under SpecWriters                                   *)

RECURSIVE InFlight(_)
\* The rows counted so far by the upsert_transactions calls still running.
InFlight(procs) ==
    IF procs = <<>> THEN 0
    ELSE (IF Head(procs).pc = "upsert" THEN Head(procs).inserted ELSE 0)
         + InFlight(Tail(procs))

\* C4: under every interleaving of the sweep and the two ingests, each
\* identity key is stored at most once, and the counts returned to the
\* writers (with the counts of the calls still running) add up to the
\* number of distinct keys added to the store.
C4_AtMostOnceAndCountsAddUp ==
    /\ \A r \in BagToSet(insider_transactions) : CopiesIn(r, insider_transactions) = 1
    /\ Cardinality(StoredKeys(insider_transactions)) = BagCardinality(insider_transactions)
    /\ n_new_returned + InFlight(task) + InFlight(<<ingest["http"], ingest["cli"]>>)
         = Cardinality(StoredKeys(insider_transactions))

\* A sweep and an ingest are both part-way through the same two rows: the
\* sweep inserted the first, the ingest found it stored.
C4_Witness ==
    \E t \in DOMAIN task, w \in Ingesters :
        /\ task[t].pc = "upsert" /\ task[t].i = 2 /\ task[t].inserted = 1
        /\ ingest[w].pc = "upsert" /\ ingest[w].i = 2 /\ ingest[w].inserted = 0
        /\ BatchKeys(task[t].txns) = BatchKeys(ingest[w].txns)

\* C11: the post-insert hook is invoked only by a sweep in which at least
\* one row was newly inserted, and the list it is passed is exactly the
\* transactions of the fetched batch for which upsert_transaction returned
\* true in that sweep.
C11_HookGetsNewRows ==
    [][on_new_filings_calls' # on_new_filings_calls =>
         \E t \in DOMAIN task :
             /\ task[t].pc = "upsert"
             /\ task'[t].pc = "hook"
             /\ task'[t].new_rows # <<>>
             /\ on_new_filings_calls' =
                  Append(on_new_filings_calls, task'[t].new_rows)]_vars

----------------------------------------------------------------------------
(* FilingMonitor life cycle, under SpecOwner                               *)

\* The loop tasks of one kind that have not terminated.
Alive(kind) == { t \in DOMAIN task : task[t].kind = kind /\ ~Finished(task[t]) }

\* C5: start is idempotent while Running: after two or more start calls
\* without a stop, exactly one ATOM poll task and one batch sweep task
\* exist, and both are held in the monitor's task handles.
C5_StartIsIdempotent ==
    (ctl.pc = "idle" /\ ctl.starts >= 2) =>
        /\ Cardinality(Alive("atom")) = 1
        /\ Cardinality(Alive("batch")) = 1
        /\ Alive("atom") \cup Alive("batch") \subseteq Range(_tasks)

\* C6: once a stop call has returned and no start followed it, every loop
\* task the monitor ever created has terminated.
C6_StopTerminatesEveryTask ==
    (ctl.pc = "idle" /\ ctl.last = "stop") =>
        \A t \in DOMAIN task : Finished(task[t])

----------------------------------------------------------------------------
(* The loops and failing I/O, under Spec                                   *)

\* The await a loop task is suspended in when it has begun a cycle.
CycleStart(kind) == IF kind = "atom" THEN "http_get" ELSE "rate_sleep"

\* An exception was raised in task t's cycle in this step.
RaisesIn(t) == ~task[t].raised /\ task'[t].raised

\* C7: an exception raised in a cycle of either loop terminates neither that
\* loop nor the other one: the loop goes to its sleep, every other task is
\* left as it was, and while the monitor is running and the task is not
\* cancelled, the step after the sleep begins another cycle.
C7_ErrorsDoNotKillLoops ==
    [][\A t \in DOMAIN task :
         /\ RaisesIn(t) =>
              /\ task'[t].pc = "wait"
              /\ \A u \in DOMAIN task \ {t} : task'[u] = task[u]
         /\ (task[t].raised /\ task[t].pc = "wait" /\ task'[t].pc # "wait"
               /\ _running /\ ~task[t].cancel) =>
              task'[t].pc = CycleStart(task[t].kind)]_vars

\* Both loops have raised and are in a later cycle.
C7_Witness ==
    /\ \E t \in DOMAIN task :
         task[t].kind = "atom" /\ task[t].faults >= 1 /\ task[t].pc = "get_watermark"
    /\ \E t \in DOMAIN task :
         task[t].kind = "batch" /\ task[t].faults >= 1 /\ task[t].pc = "upsert"

----------------------------------------------------------------------------
(* Delivery by one path alone, under FairSpecPathA and FairSpecPathB       *)

\* Every transaction of the filing with accession a is stored.
Delivered(a) ==
    \A j \in 1..Len(edgar[a].transactions) :
        IdentityKey(parse_form4(edgar[a], edgar[a].ticker)[j])
            \in StoredKeys(insider_transactions)

\* C8: with Path A alone, every accession that appears in the feed
\* eventually has its transactions in the transaction store.
C8_PathADelivers ==
    \A a \in 1..MaxFilings : (a <= Len(edgar)) ~> (a <= Len(edgar) /\ Delivered(a))

\* The filing with accession a has been published.
Filed(a) == \E j \in 1..Len(edgar) : edgar[j].accession = a

\* C9: with Path B alone, every transaction of every filing of a universe
\* ticker is eventually in the transaction store, whatever the gap between
\* transaction_date and filing_date.
C9_PathBDelivers ==
    \A a \in 1..MaxFilings : Filed(a) ~> (Filed(a) /\ Delivered(a))

----------------------------------------------------------------------------
(* The watermark, under SpecPathA                                          *)

\* C10: the watermark of "form4_atom" is never replaced by an accession
\* that is older in feed order than the one it held.
C10_WatermarkIsMonotonic ==
    [][get_watermark(monitor_watermarks, FEED_NAME)'
         >= get_watermark(monitor_watermarks, FEED_NAME)]_vars

----------------------------------------------------------------------------
(* The anomaly engine, under SpecAnalysis                                  *)

\* The store holds a transaction of the analysed ticker inside the lookback
\* window of the day analyze_ticker was called on.
InLookback(a) ==
    \E r \in BagToSet(insider_transactions) :
        /\ r.ticker = a.ticker
        /\ r.transaction_date >= a.day - settings.INSIDER_LOOKBACK_DAYS

\* C12: for a ticker with no stored transaction inside the lookback window,
\* analyze_ticker returns anomaly_score = 0, insider_sentiment = NEUTRAL and
\* no anomalies, and appends nothing to the anomalies table.
C12_EmptyWindowIsNeutral ==
    (analysis.pc # "idle" /\ ~InLookback(analysis)) =>
        /\ analysis.pc = "returned"
        /\ analysis.signal.anomaly_score = 0
        /\ analysis.signal.insider_sentiment = "NEUTRAL"
        /\ analysis.signal.anomalies = <<>>
        /\ insider_anomalies = analysis.before

\* analyze_ticker has returned for a ticker of which the store holds only a
\* transaction older than the window, next to another ticker's rows.
C12_Witness ==
    /\ analysis.pc = "returned"
    /\ ~InLookback(analysis)
    /\ \E r \in BagToSet(insider_transactions) : r.ticker = analysis.ticker
    /\ \E r \in BagToSet(insider_transactions) : r.ticker # analysis.ticker

\* C13: every signal analyze_ticker returns has 0 <= anomaly_score <= 1 and
\* every anomaly attached to it has 0 <= severity_score <= 1; the engine
\* never computes a value the schema rejects.
C13_ScoresInUnitInterval ==
    /\ analysis.pc = "returned" =>
         Validates(analysis.signal.anomaly_score, analysis.signal.anomalies)
    /\ analysis.pc = "raised" => analysis.fit_raised

\* A returned signal whose score was cut to 1: three Tier-1 rules fired for
\* a CEO and the outlier model scored the latest transaction.
C13_Witness ==
    /\ analysis.pc = "returned"
    /\ analysis.signal.anomaly_score = One
    /\ Len(analysis.signal.anomalies) >= 3
    /\ analysis.ml_score > 0

\* C14: when the fit or the scoring of the Tier-2 model raises,
\* analyze_ticker does not raise: it returns a signal computed with
\* ml_score = 0.
C14_FitFailureYieldsZeroMl ==
    analysis.fit_raised => (analysis.pc = "returned" /\ analysis.ml_score = 0)

----------------------------------------------------------------------------
(* The composite engine, under SpecComposite                               *)

\* C15: for filing and insider scores of [0, 1] that are both > 0.5 the
\* composite is >= 0.5 * (f + i); for every other pair it is
\* 0.5 * f + 0.5 * i rounded to 4 decimals.
C15_BoostNeverDecreases ==
    composite.pc = "blended" =>
        LET f == composite.filing_score
            i == composite.insider_score
        IN IF f > Fine \div 2 /\ i > Fine \div 2
             THEN 10 * composite.blended >= 5 * (f + i)
             ELSE 10 * composite.blended = round4(5 * (f + i))

\* A boosted blend of two scores whose plain blend would be rounded down,
\* and a boosted blend that hit the cap.
C15_Witness ==
    /\ composite.pc = "blended"
    /\ composite.filing_score > Fine \div 2
    /\ composite.insider_score > Fine \div 2
    /\ round4(5 * (composite.filing_score + composite.insider_score))
         < 5 * (composite.filing_score + composite.insider_score)
    /\ composite.blended < Fine

\* C16: every signal compose returns has composite_alpha_score in [0, 1].
C16_CompositeInUnitInterval ==
    composite.pc = "composed" =>
        /\ 0 <= composite.signal.composite_alpha_score
        /\ composite.signal.composite_alpha_score <= Fine

----------------------------------------------------------------------------
(* The alert service, under SpecAlerts                                     *)

\* C17: evaluate returns exactly the input signals with
\* anomaly_score >= threshold, in input order, and saves exactly one alert
\* for each of them and none for any other signal.
C17_EvaluateKeepsAtOrAboveThreshold ==
    alerting.pc = "returned" =>
        LET kept == SelectSeq(alerting.signals,
                              LAMBDA s : s.anomaly_score >= INSIDER_ANOMALY_THRESHOLD)
        IN /\ alerting.actionable = kept
           /\ Len(insider_alerts) = Len(alerting.before) + Len(kept)
           /\ SubSeq(insider_alerts, 1, Len(alerting.before)) = alerting.before
           /\ \A j \in 1..Len(kept) :
                LET row == insider_alerts[Len(alerting.before) + j]
                IN /\ row.ticker = kept[j].ticker
                   /\ row.anomaly_score = kept[j].anomaly_score

\* evaluate has returned for a list with a signal exactly at the threshold
\* and a signal just below it, on a table that already held alerts.
C17_Witness ==
    /\ alerting.pc = "returned"
    /\ alerting.before # <<>>
    /\ \E j \in DOMAIN alerting.signals :
         alerting.signals[j].anomaly_score = INSIDER_ANOMALY_THRESHOLD
    /\ \E j \in DOMAIN alerting.signals :
         alerting.signals[j].anomaly_score < INSIDER_ANOMALY_THRESHOLD
    /\ Len(alerting.actionable) < Len(alerting.signals)

----------------------------------------------------------------------------
(* The anomaly table, under SpecAnomalies                                  *)

\* C18: after save_anomaly(a), the record get_anomalies returns for it (the
\* newest one) equals a in ticker, insider_name, anomaly_type,
\* severity_score, z_score, description and transactions.
C18_AnomalyReadBack ==
    readback.pc = "read" =>
        /\ readback.records # <<>>
        /\ readback.records[1] = readback.anomaly

----------------------------------------------------------------------------
(* One Path-A poll cycle, under Spec                                       *)

Watermark == get_watermark(monitor_watermarks, FEED_NAME)

\* The first atom:id of a page.
FirstId(xml_text) ==
    LET with_id == SelectSeq(xml_text.entries, LAMBDA e : e # <<>>)
    IN with_id[1][1]

\* C19: in a poll cycle the watermark is written at most once, by the last
\* step of the cycle, after every new accession was processed, and with the
\* first accession of the page; a cycle that fails, or finds no new entry,
\* leaves the watermark as it was.
C19_WatermarkIsLastWriteOfCycle ==
    [][/\ Watermark' # Watermark =>
            \E t \in DOMAIN task :
                /\ task[t].kind = "atom"
                /\ task[t].pc = "set_watermark"
                /\ task'[t].pc \in {"wait", "cancelled"}
                /\ ~task'[t].raised
                /\ Watermark' = task[t].latest
       /\ \A t \in DOMAIN task :
            /\ (task[t].pc = "get_watermark" /\ task'[t].pc = "set_watermark") =>
                 /\ task'[t].new_accessions =
                      _parse_feed_entries(task[t].resp, Watermark)
                 /\ task'[t].processed = task'[t].new_accessions
                 /\ task'[t].latest = FirstId(task[t].resp)
            /\ (task[t].kind = "atom" /\ task'[t].pc = "wait"
                  /\ (RaisesIn(t) \/ task[t].pc \in {"http_get", "get_watermark"})) =>
                 monitor_watermarks' = monitor_watermarks]_vars

\* A cycle found two new accessions and failed before the watermark was
\* written: the watermark is still the one the cycle read.
C19_Witness ==
    \E t \in DOMAIN task :
        /\ task[t].kind = "atom"
        /\ task[t].pc = "wait"
        /\ task[t].raised
        /\ Len(task[t].new_accessions) = 2
        /\ Watermark # task[t].latest

----------------------------------------------------------------------------
(* _parse_feed_entries, under SpecParse                                    *)

\* The positions of the entries of a page whose id is the watermark.
Matches(entries, watermark) ==
    { j \in DOMAIN entries : entries[j] # <<>> /\ entries[j][1] = watermark }

\* C20: _parse_feed_entries returns, in feed order, the ids of the entries
\* that precede the first entry equal to the watermark, the ids of the
\* whole page when the watermark is absent or not on the page, no id for an
\* entry without one, and the empty list for a page that is not XML.
C20_ParseStopsAtWatermark ==
    parser.pc = "returned" =>
        LET entries == parser.xml_text.entries
            hits    == Matches(entries, parser.watermark)
            cut     == IF hits = {} THEN Len(entries) + 1 ELSE MinOf(hits)
            newer   == SelectSeq(SubSeq(entries, 1, cut - 1), LAMBDA e : e # <<>>)
        IN parser.accessions =
             IF parser.xml_text.well_formed
               THEN [j \in 1..Len(newer) |-> newer[j][1]]
               ELSE <<>>

\* A page with an entry without an id ahead of a new entry, and the
\* watermark on its last entry.
C20_Witness ==
    /\ parser.pc = "returned"
    /\ parser.xml_text.well_formed
    /\ Len(parser.xml_text.entries) = 3
    /\ parser.xml_text.entries[1] = <<>>
    /\ parser.xml_text.entries[3] = <<parser.watermark>>
    /\ Len(parser.accessions) = 1

----------------------------------------------------------------------------
(* A sweep cancelled inside upsert_transactions, under Spec                *)

\* Task t is cancelled in this step while its sweep awaits an
\* upsert_transaction of its batch.
CancelledInUpsert(t) ==
    /\ task[t].kind = "batch"
    /\ task[t].pc = "upsert"
    /\ task'[t].pc = "cancelled"

\* C21: when stop cancels a sweep part-way through its batch, the row in
\* flight is stored whole or not at all, the post-insert hook is not invoked
\* for that sweep, now or later, and a complete upsert of the same batch
\* afterwards leaves the store as the uninterrupted rest of the sweep would
\* have.
C21_CancelledSweepLeavesWholeRows ==
    [][\A t \in DOMAIN task :
         /\ CancelledInUpsert(t) =>
              LET txns == task[t].txns
                  rest == SubSeq(txns, task[t].i, Len(txns))
              IN /\ insider_transactions' \in
                      { insider_transactions,
                        insider_transactions (+) SetToBag({txns[task[t].i]}) }
                 /\ on_new_filings_calls' = on_new_filings_calls
                 /\ upsert_transactions(insider_transactions', txns)
                      = upsert_transactions(insider_transactions, rest)
         /\ task[t].pc = "cancelled" =>
              (task'[t] = task[t] /\ on_new_filings_calls' = on_new_filings_calls)]_vars

\* A sweep was cancelled after the first row of a two-row batch was stored.
C21_Witness ==
    \E t \in DOMAIN task :
        /\ task[t].kind = "batch"
        /\ task[t].pc = "cancelled"
        /\ Len(task[t].txns) = 2
        /\ task[t].i = 2
        /\ task[t].inserted = 1
        /\ BagCardinality(insider_transactions) = 1

----------------------------------------------------------------------------
(* The cluster rule.                                                       *)

\* The distinct insiders with a sale of the ticker inside the cluster window
\* that ends on the given day.
RecentSellers(ticker, day) ==
    { r.insider_name : r \in { q \in BagToSet(insider_transactions) :
          /\ q.ticker = ticker
          /\ q.transaction_code = "S"
          /\ q.transaction_date >= day - settings.INSIDER_CLUSTER_WINDOW_DAYS } }

ClusterAnomalies(signal) ==
    SelectSeq(signal.anomalies, LAMBDA a : a.anomaly_type = "CLUSTER")

\* analyze_ticker returns a signal in this step.
Returns ==
    analysis.pc = "idle" /\ analysis'.pc = "returned"

ClusterIffThreeSellers ==
    Returns =>
        LET n        == Cardinality(RecentSellers(analysis'.ticker, analysis'.day))
            clusters == ClusterAnomalies(analysis'.signal)
        IN IF n >= 3
             THEN /\ Len(clusters) = 1
                  /\ clusters[1].insider_name = "MULTIPLE"
                  /\ clusters[1].severity_score = Min(One, (One * n) \div 6)
             ELSE clusters = <<>>

\* C22: the signal analyze_ticker returns holds exactly one CLUSTER anomaly
\* when at least 3 distinct insiders sold inside the cluster window, and
\* none otherwise; the anomaly names "MULTIPLE" and has severity
\* min(1, sellers/6).  Stated for every configuration of lookback_days and
\* cluster_window_days.
C22_ClusterIffThreeSellers == [][ClusterIffThreeSellers]_vars

----------------------------------------------------------------------------
(* The per-insider rules, read off the signal analyze_ticker returns.      *)

\* The insiders of the transactions the returned analysis fetched that
\* have a profile.
Profiled ==
    { name \in { analysis'.txns[j].insider_name : j \in DOMAIN analysis'.txns } :
        HasProfile(insider_profiles_daily, analysis'.ticker, name) }

PersonTxns(name) == SelectSeq(analysis'.txns, LAMBDA t : t.insider_name = name)

ProfileOf(name) ==
    get_profile(insider_transactions, insider_profiles_daily, analysis'.ticker, name)

AnomaliesOf(name, type) ==
    SelectSeq(analysis'.signal.anomalies,
              LAMBDA a : a.insider_name = name /\ a.anomaly_type = type)

FrequencyOnGapToPrevious(name) ==
    LET person == PersonTxns(name)
        avg    == ProfileOf(name).avg_frequency_days
        gap    == person[1].transaction_date - person[2].transaction_date
        found  == AnomaliesOf(name, "FREQUENCY")
    IN IF /\ avg.num > 0
          /\ Len(person) >= 2
          /\ One * gap * avg.den < FREQUENCY_RATIO_THRESHOLD * avg.num
         THEN /\ Len(found) = 1
              /\ found[1].severity_score = Min(One, One - ((One * gap * avg.den) \div avg.num))
         ELSE found = <<>>

\* C23: for an insider with a profile the frequency rule fires iff
\* avg_frequency_days > 0, the insider has at least 2 transactions and
\* days_since_prev / avg_frequency_days < 0.25, days_since_prev being the
\* days between the insider's most recent transaction and the one before
\* it; the severity is min(1, 1 - ratio).
C23_FrequencyRule ==
    [][Returns => \A name \in Profiled : FrequencyOnGapToPrevious(name)]_vars

HoldingsOnKnownBalance(name) ==
    LET latest == PersonTxns(name)[1]
        total  == latest.shares + latest.shares_owned_after
        found  == AnomaliesOf(name, "HOLDINGS_PERCENTAGE")
    IN IF latest.transaction_code # "S" THEN found = <<>>
       ELSE latest.shares_owned_after # None =>
              IF One * latest.shares > HOLDINGS_PCT_THRESHOLD * total
                THEN /\ Len(found) = 1
                     /\ found[1].severity_score = Min(One, (One * latest.shares) \div total)
                ELSE found = <<>>

\* C24: for an insider with a profile whose most recent transaction is a
\* Sale with a known shares_owned_after (any value >= 0, 0 included), the
\* holdings-percentage rule fires iff shares / (shares + shares_owned_after)
\* > 0.20, with severity min(1, that fraction); it never fires when the
\* most recent transaction is not a Sale.
C24_HoldingsRule ==
    [][Returns => \A name \in Profiled : HoldingsOnKnownBalance(name)]_vars

----------------------------------------------------------------------------
(* The volume rule on the 50,000-share sale after five 1,000-share sales.  *)

\* The analysis fetched Jane's history of the volume scenario, latest
\* first, and Jane has a profile.
OnVolumeScenario ==
    /\ Returns
    /\ "Jane" \in Profiled
    /\ LET p == PersonTxns("Jane")
       IN /\ Len(p) = 6
          /\ \A j \in 1..6 :
               /\ p[j].transaction_code = "S"
               /\ p[j].price_per_share = 1
               /\ p[j].shares = IF j = 1 THEN 50 ELSE 1

\* C25 as stated: on that history the volume rule emits a VOLUME anomaly
\* with z_score >= 3 and severity min(1, |z|/5) >= 0.6, and the
\* anomaly_score is > 0.
C25_VolumeScenarioAsStated ==
    [][OnVolumeScenario =>
         LET found == AnomaliesOf("Jane", "VOLUME")
         IN /\ Len(found) >= 1
            /\ \E j \in DOMAIN found :
                 /\ found[j].z_score >= 30
                 /\ found[j].severity_score >= (6 * One) \div 10
            /\ analysis'.signal.anomaly_score > 0]_vars

\* C25 amended: on that history the volume rule emits exactly one VOLUME
\* anomaly, with z = 5 / sqrt(6) (2.0 <= z < 2.1, the latest sale is part of
\* the sample) and severity |z|/5 in [0.40, 0.42), and the anomaly_score
\* is > 0.
C25_VolumeScenario ==
    [][OnVolumeScenario =>
         LET found == AnomaliesOf("Jane", "VOLUME")
         IN /\ Len(found) = 1
            /\ found[1].z_score = 20
            /\ found[1].severity_score >= (40 * One) \div 100
            /\ found[1].severity_score < (42 * One) \div 100
            /\ analysis'.signal.anomaly_score > 0]_vars

C25_Witness ==
    /\ analysis.pc = "returned"
    /\ \E j \in DOMAIN analysis.signal.anomalies :
         /\ analysis.signal.anomalies[j].anomaly_type = "VOLUME"
         /\ analysis.signal.anomalies[j].transactions[1].shares = 50
    /\ analysis.signal.anomaly_score > 0

----------------------------------------------------------------------------
(* _derive_sentiment.                                                      *)

RECURSIVE CountCode(_, _)
\* How many transactions of the list carry the code.
CountCode(txns, code) ==
    IF txns = <<>> THEN 0
    ELSE (IF Head(txns).transaction_code = code THEN 1 ELSE 0) + CountCode(Tail(txns), code)

\* C26: _derive_sentiment returns BEARISH iff anomaly_score > 0.6 and the
\* sales outnumber the purchases, BULLISH iff the purchases outnumber the
\* sales, NEUTRAL in every other case (the empty list, and more sales than
\* purchases with a score <= 0.6, included); transactions of other codes do
\* not affect the result.
C26_DeriveSentiment ==
    direct.pc = "sentiment" =>
        LET sells   == CountCode(direct.txns, "S")
            buys    == CountCode(direct.txns, "P")
            bearish == direct.anomaly_score > (6 * One) \div 10 /\ sells > buys
            bullish == buys > sells
            traded  == SelectSeq(direct.txns, LAMBDA t : t.transaction_code \in {"S", "P"})
        IN /\ direct.sentiment = "BEARISH" <=> bearish
           /\ direct.sentiment = "BULLISH" <=> bullish
           /\ direct.sentiment = "NEUTRAL" <=> (~bearish /\ ~bullish)
           /\ direct.sentiment = _derive_sentiment(direct.anomaly_score, traded)

\* Two sales, one award and a score of exactly 0.6: NEUTRAL.
C26_Witness ==
    /\ direct.pc = "sentiment"
    /\ direct.anomaly_score = (6 * One) \div 10
    /\ CountCode(direct.txns, "S") = 2
    /\ CountCode(direct.txns, "A") = 1
    /\ direct.sentiment = "NEUTRAL"

----------------------------------------------------------------------------
(* The recommendation when the narrator fails.                             *)

\* C27: when the narrator call raises during compose, compose does not
\* raise and returns the deterministic template: "Strong sell signal" when
\* composite > 0.7, "Elevated caution" when 0.4 < composite <= 0.7,
\* "No immediate action" otherwise, followed by the composite score (to two
\* decimals), the sentiment label and the number of anomalies.
C27_FallbackRecommendation ==
    (composite.pc = "composed" /\ composite.llm_raised) =>
        LET sig == composite.signal
            c   == sig.composite_alpha_score
            r   == sig.recommendation
        IN /\ c > (7 * Fine) \div 10 => r.action = "Strong sell signal"
           /\ (c > (4 * Fine) \div 10 /\ c <= (7 * Fine) \div 10)
                => r.action = "Elevated caution"
           /\ c <= (4 * Fine) \div 10 => r.action = "No immediate action"
           /\ r.ticker = sig.ticker
           /\ 1000 * r.composite_score - c \in (0 - 500)..500
           /\ r.insider_sentiment = sig.insider_sentiment
           /\ r.anomalies_detected = Len(sig.anomalies)

\* The narrator failed for a composite of exactly 0.4 with one anomaly.
C27_Witness ==
    /\ composite.pc = "composed"
    /\ composite.llm_raised
    /\ composite.signal.composite_alpha_score = (4 * Fine) \div 10
    /\ composite.signal.recommendation.action = "No immediate action"
    /\ composite.signal.recommendation.anomalies_detected = 1

----------------------------------------------------------------------------
(* The alert table only grows.                                             *)

\* The alerts get_active_alerts returns for a limit that covers the table.
ActiveAlerts(table) == Range(get_alerts(table, <<FALSE>>, Len(table)))

\* The signals of the list evaluate has to keep.
Actionable(signals) ==
    SelectSeq(signals, LAMBDA sig : sig.anomaly_score >= INSIDER_ANOMALY_THRESHOLD)

AlertsOnlyGrow ==
    /\ \A j \in DOMAIN insider_alerts' : insider_alerts'[j].delivered = FALSE
    /\ Len(insider_alerts') >= Len(insider_alerts)
    /\ SubSeq(insider_alerts', 1, Len(insider_alerts)) = insider_alerts
    /\ ActiveAlerts(insider_alerts) \subseteq ActiveAlerts(insider_alerts')
    /\ Cardinality(ActiveAlerts(insider_alerts')) = Len(insider_alerts')
    /\ (alerting.pc = "idle" /\ alerting'.pc = "returned") =>
          Cardinality(ActiveAlerts(insider_alerts'))
            = Cardinality(ActiveAlerts(insider_alerts)) + Len(Actionable(alerting'.signals))
    /\ alerting'.pc = "listed" =>
          (alerting'.limit >= Len(insider_alerts') =>
             Range(alerting'.active) = Range(insider_alerts'))

\* C28: no operation sets an alert's delivered flag or removes an alert:
\* every alert ever saved stays in the table, undelivered, so what
\* get_active_alerts returns (for a limit that covers the table) only
\* grows, and evaluating the same actionable signal twice stores two alerts.
C28_AlertsOnlyGrow == [][AlertsOnlyGrow]_vars

\* One call of evaluate with the same actionable signal twice has stored
\* two alerts, and both are listed.
C28_Witness ==
    /\ alerting.pc = "listed"
    /\ Len(alerting.active) >= 2
    /\ \E j, k \in DOMAIN alerting.active :
         /\ j # k
         /\ alerting.active[j].ticker = alerting.active[k].ticker
         /\ alerting.active[j].anomaly_score = alerting.active[k].anomaly_score

----------------------------------------------------------------------------
(* What a Path-A poll cycle writes.                                        *)

\* The poll task t takes a step.
PollStep(t) ==
    /\ task[t].kind = "atom"
    /\ task'[t] # task[t]

----------------------------------------------------------------------------
(* The volume rule on short histories.                                     *)

VolumeAnomalies(anomalies) ==
    SelectSeq(anomalies, LAMBDA a : a.anomaly_type = "VOLUME")

====
